---- MODULE Spec2Model ----
(***************************************************************************)
(* Verification model of the Legion-SNAP KBA sweep engine.                 *)
(*                                                                         *)
(* The module holds several sub-models of the same program, each with its  *)
(* own specification:                                                      *)
(*   SpecSweep  - one scalar chunk sweep task                              *)
(*                (MiniKBATask::cpu_implementation, src/src/sweep.cc)      *)
(*   SpecSched  - one sweep pass of a (group, corner) over the chunk grid: *)
(*                launchers, wavefront dispatch, ghost exchange            *)
(*   SpecMMS    - concurrent MMSReduction::apply<false> / fold<false>      *)
(*                (src/src/mms.cc)                                         *)
(*   SpecFold   - the flux reductions of the corner tasks of one cell      *)
(*   SpecFixup  - the kernel of one cell: initial solution and the         *)
(*                negative-flux fixup loop                                 *)
(*   SpecTOC    - TestOuterConvergence::cpu_implementation                 *)
(*                (src/src/outer.cc)                                       *)
(*   SpecCOS    - CalcOuterSource::cpu_implementation (src/src/outer.cc)   *)
(*   SpecQuad   - the fluxm reduction that ends the cell kernel            *)
(*   SpecVec    - a chunk sweep task in its scalar, SSE or AVX variant,    *)
(*                with the regions it holds READ_ONLY                      *)
(*   SpecStep   - the corner tasks of the sweep passes of successive time  *)
(*                steps, with the time-flux arrays                         *)
(*   SpecCmp    - MMSCompare::cpu_implementation (src/src/mms.cc)          *)
(*   SpecMonoid - sequential calls of the exclusive and non-exclusive      *)
(*                MMSReduction::apply / fold (src/src/mms.cc)              *)
(*   SpecVFold  - the flux and fluxm reductions of one cell in the scalar, *)
(*                SSE and AVX kernels (src/src/sweep.cc)                   *)
(*   SpecIdx    - the loops over the angles of one cell and the indexes    *)
(*                they use on the scratch arrays (src/src/sweep.cc)        *)
(*   SpecBnd    - the cell-boundary arrays of MMSInitFlux and              *)
(*                MMSInitSource (src/src/mms.cc)                           *)
(*   SpecGpu    - the kernel dispatch of run_expand_cross_section and      *)
(*                run_expand_scattering_cross_section                      *)
(*                (src/src/gpu_expxs.cpp)                                  *)
(* A sub-model that is not part of a specification keeps its variables at  *)
(* their idle values.                                                      *)
(***************************************************************************)
EXTENDS Integers, Sequences, FiniteSets, TLC

VARIABLES
  \* ---- chunk sweep task (sweep.cc, cpu_implementation) ----
  snap,          \* Snap:: globals the sweep reads: nx/ny/nz_per_chunk, num_moments
  args,          \* MiniKBAArgs of the task: corner, and the chunk it was launched on
  sw_pc,         \* position of the task: "idle", "loop", "moments", "abort", "done"
  loop,          \* the loop counters [x, y, z] of the triple loop, and l of the moment loop
  psii,          \* the x face flux carried between consecutive x iterations
  yflux_pencil,  \* scratch: one y face flux per x column
  zflux_plane,   \* scratch: one z face flux per (y, x)
  ghost_out,     \* per axis: the writes made to the outgoing ghost buffer, per global cell
  used,          \* history: per visited local index, the incoming fluxes the kernel used
  applied,       \* history: the sequence of global cells the kernel was applied to
  \* ---- one sweep pass of a (group, corner) over the chunk grid ----
  grid,          \* number of chunks per axis (Cx, Cy, Cz)
  mini_kba,      \* the MiniKBATask launcher last built: its arguments and requirements
  next_wave,     \* the next wavefront the pass will dispatch
  tasks,         \* per chunk: the point tasks issued for it in this pass
  ghost_mem,     \* ghost fields, by the chunk holding the cell: {[f, at, val]}
  consumed,      \* history: per chunk and axis, the ghost values its task read
  \* ---- concurrent MMSReduction::apply<false> / fold<false> calls (mms.cc) ----
  lhs,           \* the target MomentTriple the calls reduce into
  lhs_init,      \* history: the target before any call
  mms_thr,       \* per thread: its rhs, the slot it is at, its oldval and newval;
                 \* history: whether one of its compare-and-swaps failed
  \* ---- flux reductions of the corner sweeps of one (group, cell) ----
  flux,          \* flux[g, cell]
  flux_init,     \* history: flux[g, cell] before the sweep
  Snap_w,        \* Snap::w, the quadrature weights
  corner_pc,     \* per corner: the cell solution pc[ang] its kernel computed
  fold_thr,      \* per corner task: its position in the reduction, total, oldval
  \* ---- the kernel of one cell: initial solution and negative-flux fixup ----
  kin,           \* what the kernel reads: flux_fixup, vdelt, t_xs, dinv, the
                 \* quadrature products mu*hi, eta*hj, xi*hk, the incoming fluxes
  kcell,         \* the per-angle arrays psi, pc, psii, psij, psik, time_flux_in/out,
                 \* hv_*, fx_hv_* and old_negative_fluxes
  fixup_at,      \* position of the kernel: "idle", "start", "loop", "exit"
  passes,        \* history: iterations of the while loop made so far
  \* ---- TestOuterConvergence::cpu_implementation (outer.cc) ----
  toc_in,        \* what the task reads: the inner-convergence future,
                 \* convergence_eps, the fields flux and flux_prev
  toc_seen,      \* the (group, cell) entries the loops have passed
  toc_last,      \* the entry the task returned false at, if any
  toc_ret,       \* position and result: "idle", "entry", "loop", "true", "false"
  \* ---- CalcOuterSource::cpu_implementation (outer.cc) ----
  cos_in,        \* what the task reads: its domain, the fields qi, flux, slgg, mat
  fa_qo0,        \* the field qo the task writes, per group and cell
  cos_at,        \* position: "idle", "loop", "done", "fault", and the loop counters
  cos_stray,     \* history: points outside the domain the task touched
  \* ---- fluxm reduction of one corner task at one (group, cell) (sweep.cc) ----
  qr_in,         \* what the step reads: num_moments, corner, Snap::ec, Snap::w, pc
  fluxm,         \* fluxm[g, cell], a MomentQuad: slots 0 .. 3
  fluxm_init,    \* history: fluxm[g, cell] before the step
  qr_at,         \* position: "idle", "start", "done"
  \* ---- one chunk sweep task in its scalar, SSE or AVX variant, with its regions ----
  vec_in,        \* the variant, the corner and the per-chunk extents
  vec_ro,        \* the regions the task holds READ_ONLY, by location
  vec_ro_init,   \* history: those regions when the task started
  vec_at,        \* position: "idle", "loop", "done", and the loop counters
  vec_psii,      \* the x face flux carried between x iterations
  vec_pencil,    \* yflux_pencil, per x
  vec_plane,     \* zflux_plane, per y * x_range + x
  vec_ghost_out, \* the stores to the outgoing ghost buffers
  vec_used,      \* history: per cell visited, the y and z face flux the kernel consumed
  \* ---- time steps: corner tasks of the sweep passes and the time-flux arrays ----
  ts_in,         \* inputs of the run: group, chunk bounds, vdelt, the corners followed
  ts_at,         \* the time step, the sweep pass within it, and which arrays are in / out
  ts_mem,        \* contents of the time-flux arrays, per (array, corner, cell)
  ts_task,       \* per corner: the status of its task in the current pass
  ts_reads,      \* what the tasks read from time_flux_in, per (step, corner, cell)
  ts_writes,     \* the writes of the current pass: location, corner, kind
  ts_left,       \* per finished step: the contents time_flux_out was left with
  \* ---- MMSCompare::cpu_implementation (mms.cc) ----
  cmp_in,        \* the two regions: flux and ref_flux per entry (field, cell)
  cmp_at,        \* position: "idle", "loop" or "done", and the entries compared so far
  cmp_acc,       \* the locals max, min, sum
  cmp_prev,      \* history: max, min, sum before the last entry compared
  cmp_ret,       \* the MomentTriple returned, or <<>>
  \* ---- MMSReduction called sequentially (mms.cc) ----
  mr_in,         \* the initial target and the triples to reduce into it
  mr_done,       \* the indices of the triples reduced so far
  mr_excl,       \* the target of the exclusive calls apply<true> / fold<true>
  mr_atom,       \* the target of the non-exclusive calls apply<false> / fold<false>
  mr_last,       \* history: the index reduced last and the target before it
  \* ---- the flux and fluxm reductions of one cell in the scalar, SSE and AVX kernels (sweep.cc) ----
  vf_in,         \* the variant, num_moments, corner, and the arrays w, ec, pc and psi of the cell
  vf_flux,       \* flux[g, cell]
  vf_fluxm,      \* fluxm[g, cell], a MomentQuad
  vf_init,       \* history: flux and fluxm before the reductions
  vf_at,         \* position: "idle", "flux", "fluxm", "done"
  \* ---- the loops over the angles of one cell and the indexes they use on the scratch arrays (sweep.cc) ----
  ix_in,         \* the variant and Snap::num_angles
  ix_loop,       \* position in the list of loops of the variant
  ix_ang,        \* the loop variable ang
  ix_last,       \* the last access: line, arrays and index, <<>> before the first
  ix_at,         \* position: "idle", "run", "fault", "done"
  \* ---- the cell-boundary arrays ib, jb, kb of MMSInitFlux and MMSInitSource (mms.cc) ----
  bd_in,         \* the task, dom.bounds.lo, the cells per chunk and the mesh steps dx, dy, dz
  bd_arr,        \* ib, jb, kb: the elements stored so far
  bd_at,         \* the array being built (1 = ib, 2 = jb, 3 = kb, 4 = past the loops) and the next index
  \* ---- the dispatch of run_expand_cross_section and run_expand_scattering_cross_section (gpu_expxs.cpp) ----
  gx_in,         \* the function called and the sizes of its input and output accessor vectors
  gx_launched,   \* the kernels launched so far, each with its template argument GROUPS
  gx_written,    \* the output fields (group indexes) a kernel has written
  gx_at          \* position: "idle", "call", "switch", "returned", "abort"

sweep_vars == <<snap, args, sw_pc, loop, psii, yflux_pencil, zflux_plane,
                ghost_out, used, applied>>

sched_vars == <<grid, mini_kba, next_wave, tasks, ghost_mem, consumed>>

mms_vars == <<lhs, lhs_init, mms_thr>>

fold_vars == <<flux, flux_init, Snap_w, corner_pc, fold_thr>>

fixup_vars == <<kin, kcell, fixup_at, passes>>

toc_vars == <<toc_in, toc_seen, toc_last, toc_ret>>

cos_vars == <<cos_in, fa_qo0, cos_at, cos_stray>>

quad_vars == <<qr_in, fluxm, fluxm_init, qr_at>>

vec_vars == <<vec_in, vec_ro, vec_ro_init, vec_at, vec_psii, vec_pencil, vec_plane, vec_ghost_out,
              vec_used>>

step_vars == <<ts_in, ts_at, ts_mem, ts_task, ts_reads, ts_writes, ts_left>>

cmp_vars == <<cmp_in, cmp_at, cmp_acc, cmp_prev, cmp_ret>>

mr_vars == <<mr_in, mr_done, mr_excl, mr_atom, mr_last>>

vfold_vars == <<vf_in, vf_flux, vf_fluxm, vf_init, vf_at>>

idx_vars == <<ix_in, ix_loop, ix_ang, ix_last, ix_at>>

bnd_vars == <<bd_in, bd_arr, bd_at>>

gpu_vars == <<gx_in, gx_launched, gx_written, gx_at>>

vars == <<snap, args, sw_pc, loop, psii, yflux_pencil, zflux_plane,
          ghost_out, used, applied,
          grid, mini_kba, next_wave, tasks, ghost_mem, consumed,
          lhs, lhs_init, mms_thr,
          flux, flux_init, Snap_w, corner_pc, fold_thr,
          kin, kcell, fixup_at, passes,
          toc_in, toc_seen, toc_last, toc_ret,
          cos_in, fa_qo0, cos_at, cos_stray,
          qr_in, fluxm, fluxm_init, qr_at,
          vec_in, vec_ro, vec_ro_init, vec_at, vec_psii, vec_pencil, vec_plane, vec_ghost_out,
          vec_used,
          ts_in, ts_at, ts_mem, ts_task, ts_reads, ts_writes, ts_left,
          cmp_in, cmp_at, cmp_acc, cmp_prev, cmp_ret,
          mr_in, mr_done, mr_excl, mr_atom, mr_last,
          vf_in, vf_flux, vf_fluxm, vf_init, vf_at,
          ix_in, ix_loop, ix_ang, ix_last, ix_at,
          bd_in, bd_arr, bd_at,
          gx_in, gx_launched, gx_written, gx_at>>

(***************************************************************************)
(* Bounds of the model.                                                    *)
(***************************************************************************)
MaxPerChunk == 2     \* nx/ny/nz_per_chunk range over 1..MaxPerChunk
MaxChunkCoord == 1   \* the chunk's coordinate in the chunk grid, per axis: 0..MaxChunkCoord
MaxMoments == 2      \* Snap::num_moments ranges up to MaxMoments
MaxMomentIter == 3   \* cap on the iterations of the moment loop the model follows
MaxGrid == 2         \* chunks per axis range over 1..MaxGrid
MaxGroup == 1        \* the energy group of a pass is 0 or MaxGroup
MaxChunks == 8       \* chunk grids of the pass have at most MaxChunks chunks
MaxThreads == 2      \* threads reducing into one MomentTriple: 1..MaxThreads
MaxVal == 1          \* the per-cell errors the threads reduce are 0..MaxVal
NumAngles == 2       \* Snap::num_angles
MaxFoldCorner == 1   \* the corner tasks folding into one cell: 0..MaxFoldCorner
MaxPc == 1           \* a cell solution pc[ang] is -1 or MaxPc
MaxFlux == 2         \* incoming fluxes: 0 or MaxFlux (x face, time), 2*MaxFlux (y), 5*MaxFlux (z)
MaxSrc == 8          \* the angular source psi[ang] is -MaxSrc or MaxSrc
MaxXs == 1           \* the total cross-section t_xs is 0 or MaxXs
MaxVdelt == 1        \* vdelt is 0 or MaxVdelt
MaxOuterGroups == 2  \* energy groups of the outer tasks: 1..MaxOuterGroups
MaxOuterCells == 2   \* cells of the convergence test's domain: 1..MaxOuterCells
MaxOuterEntries == 4 \* at most this many (group, cell) entries
MaxOuterFlux == 2    \* flux values of the outer tasks: 0..MaxOuterFlux
MaxOuterLo == 1      \* lower bound of the outer source task's domain: 0 or MaxOuterLo
MaxOuterX == 3       \* x extent of that domain: 1..MaxOuterX
MaxOuterYZ == 2      \* y and z extent of that domain: 1 or MaxOuterYZ
MaxStepCorners == 2  \* corners whose tasks a sweep pass of the time steps follows
MaxPasses == 2       \* sweep passes per time step: 1..MaxPasses
MaxTimeSteps == 2    \* time steps: 1..MaxTimeSteps
MaxBndLo == 1         \* dom.bounds.lo of the MMS tasks, per axis: 0 or MaxBndLo
MaxBndCells == 2      \* cells per chunk of the MMS tasks, per axis: 1..MaxBndCells
MaxBndStep == 2       \* mesh steps dx, dy, dz in units: 1..MaxBndStep
MaxGpuGroups == 65    \* accessors handed to the GPU dispatch: 0..MaxGpuGroups
MaxStripX == 33       \* x extents gcd(max_x, 32) is evaluated for: 1..MaxStripX
MaxVecGroups == 1    \* Snap::num_angles of the variant reductions: 4, 8, .. 4*MaxVecGroups
MaxTriples == 3      \* triples reduced sequentially into one target: 1..MaxTriples
MaxCmpEntries == 2   \* entries (field, cell) MMSCompare compares: 1..MaxCmpEntries
MaxCmpFlux == 2      \* computed fluxes: -MaxCmpFlux..MaxCmpFlux; reference fluxes: -1..MaxCmpFlux

\* axis 1 is x (index 0 in the source), axis 2 is y, axis 3 is z
Axes == {1, 2, 3}
Corners == 0 .. 7

(***************************************************************************)
(* Chunk sweep: helpers                                                    *)
(***************************************************************************)

\* Spec section 3 (Grid): the mesh is partitioned into chunks of size
\* nx_per_chunk x ny_per_chunk x nz_per_chunk; the partition itself is not in src/.
ChunkRect(chunk, per) ==
  [lo |-> <<chunk[1] * per[1], chunk[2] * per[2], chunk[3] * per[3]>>,
   hi |-> <<chunk[1] * per[1] + per[1] - 1, chunk[2] * per[2] + per[2] - 1,
            chunk[3] * per[3] + per[3] - 1>>]

per_chunk(s) == <<s.nx_per_chunk, s.ny_per_chunk, s.nz_per_chunk>>

subgrid_bounds == ChunkRect(args.chunk, per_chunk(snap))

\* (corner & 0x1) != 0, (corner & 0x2) != 0, (corner & 0x4) != 0
stride_positive(corner, i) == ((corner \div (2 ^ (i - 1))) % 2) # 0

origin(corner, bounds) ==
  <<IF stride_positive(corner, 1) THEN bounds.lo[1] ELSE bounds.hi[1],
    IF stride_positive(corner, 2) THEN bounds.lo[2] ELSE bounds.hi[2],
    IF stride_positive(corner, 3) THEN bounds.lo[3] ELSE bounds.hi[3]>>

\* x_range, y_range, z_range
range(bounds) == <<(bounds.hi[1] - bounds.lo[1]) + 1, (bounds.hi[2] - bounds.lo[2]) + 1,
                   (bounds.hi[3] - bounds.lo[3]) + 1>>

\* local_point: the origin moved by the loop counters along the corner's strides
LocalPointSameSign(corner, bounds, idx) ==
  LET o == origin(corner, bounds)
  IN  <<o[1] + idx[1], o[2] + idx[2], o[3] + idx[3]>>
local_point(corner, bounds, idx) ==
  LET o == origin(corner, bounds)
  IN  <<IF stride_positive(corner, 1) THEN o[1] + idx[1] ELSE o[1] - idx[1],
        IF stride_positive(corner, 2) THEN o[2] + idx[2] ELSE o[2] - idx[2],
        IF stride_positive(corner, 3) THEN o[3] + idx[3] ELSE o[3] - idx[3]>>

\* ghost_point: the cell one step upstream of pt along axis i
GhostPointNoShift(corner, pt, i) == pt
ghost_point(corner, pt, i) ==
  [pt EXCEPT ![i] = IF stride_positive(corner, i) THEN pt[i] - 1 ELSE pt[i] + 1]

\* Flux values are kept symbolic: what a ghost buffer holds at a cell, what the
\* kernel produced at a local index on an axis, and the content of malloc'ed
\* memory that was never written.
GhostIn(i, pt) == <<"ghost", i, pt>>
KernelOut(i, idx) == <<"out", i, idx>>
Uninit == <<"uninit">>

\* offset of a cell in the pencil (x) and in the plane (y * x_range + x),
\* in units of one angle buffer
PencilOffsetBug(idx, rng) == 0
pencil_offset(idx, rng) == idx[1]
plane_offset(idx, rng) == idx[2] * rng[1] + idx[1]

\* the test that selects the outgoing ghost buffer over the pencil/plane
LastAlongBug(s, idx, i) == idx[i] = per_chunk(s)[i]
last_along(s, idx, i) == idx[i] = per_chunk(s)[i] - 1

\* the loop counters after one iteration of for z / for y / for x
next_idx(idx, rng) ==
  IF idx[1] + 1 < rng[1] THEN <<idx[1] + 1, idx[2], idx[3]>>
  ELSE IF idx[2] + 1 < rng[2] THEN <<0, idx[2] + 1, idx[3]>>
  ELSE <<0, 0, idx[3] + 1>>

Idx3(l) == <<l[1], l[2], l[3]>>

(***************************************************************************)
(* Chunk sweep: actions                                                    *)
(***************************************************************************)
SweepIdle ==
  /\ snap = [nx_per_chunk |-> 1, ny_per_chunk |-> 1, nz_per_chunk |-> 1,
             num_moments |-> 1]
  /\ args = [corner |-> 0, chunk |-> <<0, 0, 0>>]
  /\ sw_pc = "idle"
  /\ loop = <<0, 0, 0, 0>>
  /\ psii = Uninit
  /\ yflux_pencil = <<>>
  /\ zflux_plane = <<>>
  /\ ghost_out = <<<<>>, <<>>, <<>>>>
  /\ used = <<>>
  /\ applied = <<>>

\* The task at the top of its triple loop, scratch allocated and not yet written.
SweepInit ==
  /\ snap \in [nx_per_chunk : 1 .. MaxPerChunk, ny_per_chunk : 1 .. MaxPerChunk,
               nz_per_chunk : 1 .. MaxPerChunk, num_moments : 1 .. MaxMoments]
  /\ args \in [corner : Corners,
              chunk : (0 .. MaxChunkCoord) \X (0 .. MaxChunkCoord) \X (0 .. MaxChunkCoord)]
  /\ sw_pc = "loop"
  /\ loop = <<0, 0, 0, 0>>
  /\ psii = Uninit
  /\ yflux_pencil = [o \in 0 .. range(subgrid_bounds)[1] - 1 |-> Uninit]
  /\ zflux_plane = [o \in 0 .. range(subgrid_bounds)[2] * range(subgrid_bounds)[1] - 1
                      |-> Uninit]
  /\ ghost_out = <<<<>>, <<>>, <<>>>>
  /\ used = <<>>
  /\ applied = <<>>

\* One iteration of the triple loop for a cell whose angular source needs no
\* moment loop (num_moments = 1): reads, kernel, writes, reductions.
SweepCell ==
  /\ sw_pc = "loop"
  /\ snap.num_moments = 1
  /\ LET rng == range(subgrid_bounds)
         idx == Idx3(loop)
         pt  == local_point(args.corner, subgrid_bounds, idx)
         \* incoming fluxes
         in_i == IF idx[1] = 0 THEN GhostIn(1, ghost_point(args.corner, pt, 1))
                 ELSE psii
         in_j == IF idx[2] = 0 THEN GhostIn(2, ghost_point(args.corner, pt, 2))
                 ELSE yflux_pencil[pencil_offset(idx, rng)]
         in_k == IF idx[3] = 0 THEN GhostIn(3, ghost_point(args.corner, pt, 3))
                 ELSE zflux_plane[plane_offset(idx, rng)]
         wr(i) == Append(ghost_out[i], [at |-> pt, by |-> idx, val |-> KernelOut(i, idx)])
         nxt == next_idx(idx, rng)
     IN
       /\ used' = Append(used, [idx |-> idx, i |-> in_i, j |-> in_j, k |-> in_k])
       /\ applied' = Append(applied, pt)
       /\ psii' = KernelOut(1, idx)
       /\ yflux_pencil' = IF last_along(snap, idx, 2) THEN yflux_pencil
                          ELSE [yflux_pencil EXCEPT ![pencil_offset(idx, rng)] =
                                                      KernelOut(2, idx)]
       /\ zflux_plane' = IF last_along(snap, idx, 3) THEN zflux_plane
                         ELSE [zflux_plane EXCEPT ![plane_offset(idx, rng)] =
                                                    KernelOut(3, idx)]
       /\ ghost_out' = <<IF last_along(snap, idx, 1) THEN wr(1) ELSE ghost_out[1],
                         IF last_along(snap, idx, 2) THEN wr(2) ELSE ghost_out[2],
                         IF last_along(snap, idx, 3) THEN wr(3) ELSE ghost_out[3]>>
       /\ loop' = <<nxt[1], nxt[2], nxt[3], 0>>
       /\ sw_pc' = IF nxt[3] < rng[3] THEN "loop" ELSE "done"
  /\ UNCHANGED <<snap, args>>
  /\ UNCHANGED <<sched_vars, mms_vars, fold_vars, fixup_vars, toc_vars, cos_vars, quad_vars, vec_vars, step_vars, cmp_vars, mr_vars, vfold_vars, idx_vars, bnd_vars, gpu_vars>>

\* num_moments > 1: the cell enters `for (unsigned l = 1; 1 < num_moments; l++)`.
SweepEnterMoments ==
  /\ sw_pc = "loop"
  /\ snap.num_moments > 1
  /\ sw_pc' = "moments"
  /\ loop' = [loop EXCEPT ![4] = 1]
  /\ UNCHANGED <<snap, args, psii, yflux_pencil, zflux_plane, ghost_out, used, applied>>
  /\ UNCHANGED <<sched_vars, mms_vars, fold_vars, fixup_vars, toc_vars, cos_vars, quad_vars, vec_vars, step_vars, cmp_vars, mr_vars, vfold_vars, idx_vars, bnd_vars, gpu_vars>>

\* One iteration of the moment loop. Its condition 1 < num_moments does not
\* depend on l, so the loop is never left through its condition; once l reaches
\* num_moments the reads of quad[l] and ec[...] are out of bounds, which the
\* build may survive (the loop goes on) or not (the task aborts).
SweepMomentIter ==
  /\ sw_pc = "moments"
  /\ 1 < snap.num_moments
  /\ loop[4] < MaxMomentIter
  /\ loop' = [loop EXCEPT ![4] = loop[4] + 1]
  /\ UNCHANGED <<snap, args, sw_pc, psii, yflux_pencil, zflux_plane, ghost_out,
                 used, applied>>
  /\ UNCHANGED <<sched_vars, mms_vars, fold_vars, fixup_vars, toc_vars, cos_vars, quad_vars, vec_vars, step_vars, cmp_vars, mr_vars, vfold_vars, idx_vars, bnd_vars, gpu_vars>>

SweepMomentAbort ==
  /\ sw_pc = "moments"
  /\ loop[4] >= snap.num_moments
  /\ sw_pc' = "abort"
  /\ UNCHANGED <<snap, args, loop, psii, yflux_pencil, zflux_plane, ghost_out,
                 used, applied>>
  /\ UNCHANGED <<sched_vars, mms_vars, fold_vars, fixup_vars, toc_vars, cos_vars, quad_vars, vec_vars, step_vars, cmp_vars, mr_vars, vfold_vars, idx_vars, bnd_vars, gpu_vars>>

SweepNext == SweepCell \/ SweepEnterMoments \/ SweepMomentIter \/ SweepMomentAbort

(***************************************************************************)
(* Chunk sweep: properties                                                 *)
(***************************************************************************)
Bit(c, i) == (c \div (2 ^ (i - 1))) % 2
ChunkCells(bounds) == (bounds.lo[1] .. bounds.hi[1]) \X (bounds.lo[2] .. bounds.hi[2])
                        \X (bounds.lo[3] .. bounds.hi[3])
ExtentsEqualPerChunk ==
  \A i \in Axes : range(subgrid_bounds)[i] = per_chunk(snap)[i]
Upstream(idx, i) == [idx EXCEPT ![i] = idx[i] - 1]

\* C1: in the scalar chunk sweep of a chunk whose extents equal the per-chunk
\* sizes, for every corner, the incoming face flux the kernel uses at a local
\* cell is, per axis, the ghost buffer value one step upstream when the local
\* index on that axis is 0, and otherwise exactly the outgoing flux the kernel
\* produced at the upstream in-chunk neighbour (never an unwritten or an
\* overwritten pencil/plane slot).
C1_IncomingFromUpstream ==
  ExtentsEqualPerChunk =>
    \A n \in 1 .. Len(used) :
      LET u  == used[n]
          at(i) == IF Bit(args.corner, i) = 1 THEN subgrid_bounds.lo[i] + u.idx[i]
                                              ELSE subgrid_bounds.hi[i] - u.idx[i]
          pt == <<at(1), at(2), at(3)>>
          want(i) == IF u.idx[i] = 0
                     THEN GhostIn(i, [pt EXCEPT ![i] = IF Bit(args.corner, i) = 1
                                                       THEN pt[i] - 1 ELSE pt[i] + 1])
                     ELSE KernelOut(i, Upstream(u.idx, i))
      IN  /\ u.i = want(1)
          /\ u.j = want(2)
          /\ u.k = want(3)

\* C1 witness: a finished sweep in which a cell with x > 0, y > 0 and z > 0 was processed
C1_Witness ==
  /\ sw_pc = "done"
  /\ ExtentsEqualPerChunk
  /\ \E n \in 1 .. Len(used) : \A i \in Axes : used[n].idx[i] > 0

\* C2: for every corner and chunk the triple loop maps the local indices onto
\* the chunk's cells bijectively, so a finished sweep applied the kernel to every
\* cell of the chunk exactly once (and an unfinished one to no cell twice and to
\* no cell outside the chunk); along each axis the global coordinate increases
\* with the local index when the corner's bit is set and decreases when it is clear.
C2_BijectiveSignedTraversal ==
  /\ \A n \in 1 .. Len(applied) : applied[n] \in ChunkCells(subgrid_bounds)
  /\ \A m, n \in 1 .. Len(applied) : m # n => applied[m] # applied[n]
  /\ sw_pc = "done" =>
       /\ {applied[n] : n \in 1 .. Len(applied)} = ChunkCells(subgrid_bounds)
       /\ Len(applied) = Cardinality(ChunkCells(subgrid_bounds))
  /\ \A m, n \in 1 .. Len(applied) : \A i \in Axes :
       used[m].idx[i] < used[n].idx[i] =>
         IF Bit(args.corner, i) = 1 THEN applied[m][i] < applied[n][i]
                                    ELSE applied[m][i] > applied[n][i]

\* C2 witness: a finished sweep of a chunk away from the origin, with more than
\* one cell per axis, from a corner with a negative and a positive stride
C2_Witness ==
  /\ sw_pc = "done"
  /\ Bit(args.corner, 1) = 0 /\ Bit(args.corner, 2) = 1
  /\ \A i \in Axes : args.chunk[i] > 0 /\ range(subgrid_bounds)[i] > 1

FaceCells(i) ==
  {pt \in ChunkCells(subgrid_bounds) :
     pt[i] = IF Bit(args.corner, i) = 1 THEN subgrid_bounds.hi[i]
                                        ELSE subgrid_bounds.lo[i]}

\* C6: during one chunk sweep, per axis, every face cell of the outgoing ghost
\* buffer is written exactly once, by the cell whose local index on that axis is
\* chunk_dim - 1 and with that cell's outgoing face flux; a cell that is not last
\* along an axis writes no ghost cell of that axis and leaves psij / psik in the
\* pencil / plane slot of its column (psii stays in the carried variable).
C6_GhostWrittenOnceByLastCell ==
  /\ \A i \in Axes :
       /\ \A n \in 1 .. Len(ghost_out[i]) :
            LET wr == ghost_out[i][n] IN
              /\ wr.by[i] = range(subgrid_bounds)[i] - 1
              /\ wr.at \in FaceCells(i)
              /\ wr.val = KernelOut(i, wr.by)
              /\ \E k \in 1 .. Len(applied) : used[k].idx = wr.by /\ applied[k] = wr.at
       /\ \A m, n \in 1 .. Len(ghost_out[i]) :
            m # n => ghost_out[i][m].at # ghost_out[i][n].at
       /\ sw_pc = "done" =>
            {ghost_out[i][n].at : n \in 1 .. Len(ghost_out[i])} = FaceCells(i)
       /\ \A k \in 1 .. Len(used) :
            used[k].idx[i] = range(subgrid_bounds)[i] - 1 =>
              \E n \in 1 .. Len(ghost_out[i]) : ghost_out[i][n].by = used[k].idx
  /\ Len(used) > 0 =>
       LET idx == used[Len(used)].idx
           rng == range(subgrid_bounds)
       IN  /\ psii = KernelOut(1, idx)
           /\ idx[2] # rng[2] - 1 => yflux_pencil[idx[1]] = KernelOut(2, idx)
           /\ idx[3] # rng[3] - 1 => zflux_plane[idx[2] * rng[1] + idx[1]] = KernelOut(3, idx)

\* C6 witness: a finished sweep of a chunk with more than one cell per axis
C6_Witness ==
  /\ sw_pc = "done"
  /\ \A i \in Axes : range(subgrid_bounds)[i] > 1 /\ Len(ghost_out[i]) > 1

\* The angular-source moment loop (lines 256-265). In state sw_pc = "moments"
\* the loop condition has just been found true and the body is about to run
\* with l = loop[4]: it reads quad[l] and ec[moment_offset(corner, l) + ang].
moment_offset(corner, l) == corner * NumAngles * snap.num_moments + l * NumAngles

\* ec holds num_corners * num_moments * num_angles coefficients, and a cell's
\* source holds the moments 0 .. num_moments-1.
ec_in_range(i) == 0 <= i /\ i < Cardinality(Corners) * snap.num_moments * NumAngles
qtot_in_range(l) == 0 <= l /\ l < snap.num_moments

\* C11: with num_moments > 1 the moment loop of a cell runs its body for
\* l = 1 .. num_moments-1 only, with every index into ec and qtot in range, and
\* then ends (so the task is never given up inside the loop).
C11_MomentLoopRunsToNumMoments ==
  /\ sw_pc = "moments" =>
       /\ loop[4] \in 1 .. snap.num_moments - 1
       /\ qtot_in_range(loop[4])
       /\ \A ang \in 0 .. NumAngles - 1 :
            ec_in_range(moment_offset(args.corner, loop[4]) + ang)
  /\ sw_pc # "abort"

(***************************************************************************)
(* Sweep pass of one (group, corner): launcher, wavefront dispatch, tasks   *)
(***************************************************************************)
num_dims == 3        \* assert(Snap::num_dims == 3)
Dims == 1 .. num_dims

\* SNAP_GHOST_FLUX_FIELD_EVEN / _ODD (snap.h, not in src/): one field per
\* (parity, group, corner, axis).
SNAP_GHOST_FLUX_FIELD_EVEN(group, corner, i) ==
  [parity |-> "EVEN", group |-> group, corner |-> corner, dim |-> i]
SNAP_GHOST_FLUX_FIELD_ODD(group, corner, i) ==
  [parity |-> "ODD", group |-> group, corner |-> corner, dim |-> i]

\* a ghost field that does not tell the corners apart
GhostWriteOfGroup(even, group, corner, i) ==
  IF even THEN SNAP_GHOST_FLUX_FIELD_EVEN(group, 0, i)
          ELSE SNAP_GHOST_FLUX_FIELD_ODD(group, 0, i)

\* MiniKBATask::MiniKBATask: the field of the writing ghost requirement of axis i
ghost_write(even, group, corner, i) ==
  IF even THEN SNAP_GHOST_FLUX_FIELD_EVEN(group, corner, i)
          ELSE SNAP_GHOST_FLUX_FIELD_ODD(group, corner, i)

\* MiniKBATask::MiniKBATask: the field of the reading ghost requirement of axis i
\* ("Reverse polarity for these ghost fields")
GhostReadSamePolarity(even, group, corner, i) ==
  IF even THEN SNAP_GHOST_FLUX_FIELD_EVEN(group, corner, i)
          ELSE SNAP_GHOST_FLUX_FIELD_ODD(group, corner, i)
ghost_read(even, group, corner, i) ==
  IF even THEN SNAP_GHOST_FLUX_FIELD_ODD(group, corner, i)
          ELSE SNAP_GHOST_FLUX_FIELD_EVEN(group, corner, i)

\* MiniKBATask::MiniKBATask: the launcher with its arguments and ghost requirements;
\* its launch bounds start as the single point Rect(ZEROES, ZEROES)
MiniKBATask(even, group, corner) ==
  [even |-> even,
   mini_kba_args |-> [corner |-> corner, group |-> group, wavefront |-> 0],
   launch_domain |-> {<<0, 0, 0>>},
   writes |-> <<ghost_write(even, group, corner, 1), ghost_write(even, group, corner, 2),
                ghost_write(even, group, corner, 3)>>,
   reads  |-> <<ghost_read(even, group, corner, 1), ghost_read(even, group, corner, 2),
                ghost_read(even, group, corner, 3)>>]

\* MiniKBATask::dispatch_wavefront: save the wavefront, set the launch domain
DispatchKeepsDomain(launcher, wavefront, launch_d) ==
  [launcher EXCEPT !.mini_kba_args.wavefront = wavefront]
dispatch_wavefront(launcher, wavefront, launch_d) ==
  [launcher EXCEPT !.mini_kba_args.wavefront = wavefront,
                   !.launch_domain = launch_d]

\* --- the scheduler of the pass (snap.cc, not in src/), after spec 4.3 and 5 ---
Chunks(g) == (0 .. g[1] - 1) \X (0 .. g[2] - 1) \X (0 .. g[3] - 1)

\* the diagonal with weights 0 / 1 taken from the corner's bits
diagonal_01(corner, g, ch) ==
  Bit(corner, 1) * ch[1] + Bit(corner, 2) * ch[2] + Bit(corner, 3) * ch[3]

\* the wavefront of a chunk: its distance from the corner's first chunk, summed
\* over the axes, so that the wavefronts are 0 .. Cx+Cy+Cz-3
chunk_wavefront(corner, g, ch) ==
  LET dist(i) == IF stride_positive(corner, i) THEN ch[i] ELSE g[i] - 1 - ch[i]
  IN  dist(1) + dist(2) + dist(3)
num_wavefronts(g) == g[1] + g[2] + g[3] - 2
wavefront_domain(corner, g, w) == {ch \in Chunks(g) : chunk_wavefront(corner, g, ch) = w}

\* the parity of a wavefront: it reads what the previous diagonal wrote (spec 3)
wavefront_even(w) == (w % 2) = 0

\* a point task may start once every task of the earlier wavefronts of its
\* (group, corner) has completed (spec 5)
may_start(ch) ==
  \A other \in DOMAIN tasks : \A n \in 1 .. Len(tasks[other]) :
     tasks[other][n].wavefront < tasks[ch][Len(tasks[ch])].wavefront
       => tasks[other][n].st = "done"

LocalIdx(s) == (0 .. s.nx_per_chunk - 1) \X (0 .. s.ny_per_chunk - 1)
                 \X (0 .. s.nz_per_chunk - 1)

HomeChunk(s, at) ==
  <<at[1] \div s.nx_per_chunk, at[2] \div s.ny_per_chunk, at[3] \div s.nz_per_chunk>>
ReadGhost(mem, s, f, at) ==
  LET home == HomeChunk(s, at)
      hit == IF home \in DOMAIN mem
             THEN {m \in mem[home] : m.f = f /\ m.at = at}
             ELSE {}
  IN  IF hit # {} THEN (CHOOSE m \in hit : TRUE).val ELSE <<"stale", f, at>>

SchedIdle ==
  /\ grid = <<1, 1, 1>>
  /\ mini_kba = MiniKBATask(TRUE, 0, 0)
  /\ next_wave = 0
  /\ tasks = <<>>
  /\ ghost_mem = <<>>
  /\ consumed = <<>>

SchedInit ==
  /\ grid \in {g \in (1 .. MaxGrid) \X (1 .. MaxGrid) \X (1 .. MaxGrid) :
                 g[1] * g[2] * g[3] <= MaxChunks}
  /\ \E group \in {0, MaxGroup}, corner \in Corners :
       mini_kba = MiniKBATask(wavefront_even(0), group, corner)
  /\ next_wave = 0
  /\ tasks = [ch \in Chunks(grid) |-> <<>>]
  /\ ghost_mem = [ch \in Chunks(grid) |-> {}]
  /\ consumed = [ch \in Chunks(grid) |-> <<{}, {}, {}>>]

\* The pass dispatches its next wavefront: a launcher of the wavefront's parity,
\* dispatched over the wavefront's chunks; every point of the launch domain
\* becomes a point task carrying the launcher's arguments and requirements.
DispatchWavefront ==
  /\ sw_pc = "idle"
  /\ next_wave < num_wavefronts(grid)
  /\ LET corner == mini_kba.mini_kba_args.corner
         group  == mini_kba.mini_kba_args.group
         l == dispatch_wavefront(MiniKBATask(wavefront_even(next_wave), group, corner),
                                 next_wave, wavefront_domain(corner, grid, next_wave))
     IN  /\ mini_kba' = l
         /\ tasks' = [ch \in DOMAIN tasks |->
                        IF ch \in l.launch_domain
                        THEN Append(tasks[ch],
                                    [st |-> "issued", even |-> l.even,
                                     wavefront |-> l.mini_kba_args.wavefront,
                                     corner |-> l.mini_kba_args.corner,
                                     group |-> l.mini_kba_args.group,
                                     writes |-> l.writes, reads |-> l.reads])
                        ELSE tasks[ch]]
  /\ next_wave' = next_wave + 1
  /\ UNCHANGED <<grid, ghost_mem, consumed>>
  /\ UNCHANGED <<sweep_vars, mms_vars, fold_vars, fixup_vars, toc_vars, cos_vars, quad_vars, vec_vars, step_vars, cmp_vars, mr_vars, vfold_vars, idx_vars, bnd_vars, gpu_vars>>

Current(ch) == tasks[ch][Len(tasks[ch])]

TaskStart ==
  /\ sw_pc = "idle"
  /\ \E ch \in DOMAIN tasks :
       /\ Len(tasks[ch]) > 0
       /\ Current(ch).st = "issued"
       /\ may_start(ch)
       /\ tasks' = [tasks EXCEPT ![ch][Len(tasks[ch])].st = "running"]
  /\ UNCHANGED <<grid, mini_kba, next_wave, ghost_mem, consumed>>
  /\ UNCHANGED <<sweep_vars, mms_vars, fold_vars, fixup_vars, toc_vars, cos_vars, quad_vars, vec_vars, step_vars, cmp_vars, mr_vars, vfold_vars, idx_vars, bnd_vars, gpu_vars>>

\* The chunk sweep of a running point task, start to end (num_moments = 1): the
\* first cells along each axis read the incoming ghost field one step upstream,
\* the last cells write the outgoing ghost field at their own cell.
TaskSweep ==
  /\ sw_pc = "idle"
  /\ snap.num_moments = 1
  /\ \E ch \in DOMAIN tasks :
       /\ Len(tasks[ch]) > 0
       /\ Current(ch).st = "running"
       /\ LET t == Current(ch)
              bounds == ChunkRect(ch, per_chunk(snap))
              first(i) == {d \in LocalIdx(snap) : d[i] = 0}
              cell(idx) == local_point(t.corner, bounds, idx)
              rd(i) == {[at  |-> ghost_point(t.corner, cell(idx), i),
                         f   |-> t.reads[i],
                         val |-> ReadGhost(ghost_mem, snap, t.reads[i],
                                           ghost_point(t.corner, cell(idx), i))]
                          : idx \in first(i)}
              wr == {[f |-> t.writes[e[1]], at |-> cell(e[2]),
                      val |-> <<"out", e[1], ch, e[2]>>]
                       : e \in {d \in Dims \X LocalIdx(snap) : last_along(snap, d[2], d[1])}}
              keys == {<<w.f, w.at>> : w \in wr}
          IN  /\ consumed' = [consumed EXCEPT ![ch] = <<rd(1), rd(2), rd(3)>>]
              /\ ghost_mem' = [ghost_mem EXCEPT ![ch] =
                                 {m \in @ : <<m.f, m.at>> \notin keys} \cup wr]
              /\ tasks' = [tasks EXCEPT ![ch][Len(tasks[ch])].st = "done"]
  /\ UNCHANGED <<grid, mini_kba, next_wave>>
  /\ UNCHANGED <<sweep_vars, mms_vars, fold_vars, fixup_vars, toc_vars, cos_vars, quad_vars, vec_vars, step_vars, cmp_vars, mr_vars, vfold_vars, idx_vars, bnd_vars, gpu_vars>>

\* num_moments > 1: the first cell of the sweep never leaves its moment loop.
TaskStuck ==
  /\ sw_pc = "idle"
  /\ snap.num_moments > 1
  /\ \E ch \in DOMAIN tasks :
       /\ Len(tasks[ch]) > 0
       /\ Current(ch).st = "running"
       /\ tasks' = [tasks EXCEPT ![ch][Len(tasks[ch])].st = "stuck"]
  /\ UNCHANGED <<grid, mini_kba, next_wave, ghost_mem, consumed>>
  /\ UNCHANGED <<sweep_vars, mms_vars, fold_vars, fixup_vars, toc_vars, cos_vars, quad_vars, vec_vars, step_vars, cmp_vars, mr_vars, vfold_vars, idx_vars, bnd_vars, gpu_vars>>

SchedNext == DispatchWavefront \/ TaskStart \/ TaskSweep \/ TaskStuck

(***************************************************************************)
(* Sweep pass: properties                                                  *)
(***************************************************************************)
PassCorner == mini_kba.mini_kba_args.corner
PassGroup == mini_kba.mini_kba_args.group
\* the neighbour of chunk ch one chunk upstream along axis i in the pass's direction
UpstreamChunk(ch, i) ==
  [ch EXCEPT ![i] = IF Bit(PassCorner, i) = 1 THEN ch[i] - 1 ELSE ch[i] + 1]
Started(ch) == Len(tasks[ch]) > 0 /\ Current(ch).st \in {"running", "done", "stuck"}
Completed(ch) == Len(tasks[ch]) > 0 /\ Current(ch).st = "done"
\* the cell of chunk ch at local index idx, by the corner's bits
CellAt(ch, idx) ==
  LET b == ChunkRect(ch, per_chunk(snap))
      at(i) == IF Bit(PassCorner, i) = 1 THEN b.lo[i] + idx[i] ELSE b.hi[i] - idx[i]
  IN  <<at(1), at(2), at(3)>>

AllDone(w) ==
  \A ch \in DOMAIN tasks :
     chunk_wavefront(PassCorner, grid, ch) = w => Completed(ch)

Even(g, c, i) == [parity |-> "EVEN", group |-> g, corner |-> c, dim |-> i]
Odd(g, c, i) == [parity |-> "ODD", group |-> g, corner |-> c, dim |-> i]

\* C5: for every MiniKBATask (any group, corner, value of even) and every axis
\* i < num_dims, even = true writes EVEN(group, corner, i) and reads
\* ODD(group, corner, i), even = false writes ODD and reads EVEN; no task holds
\* read and write access to the same ghost field.
C5_OppositeParity ==
  \A ch \in DOMAIN tasks : \A n \in 1 .. Len(tasks[ch]) :
    LET t == tasks[ch][n] IN
      /\ \A i \in Dims :
           /\ t.even => t.writes[i] = Even(t.group, t.corner, i)
                        /\ t.reads[i] = Odd(t.group, t.corner, i)
           /\ ~t.even => t.writes[i] = Odd(t.group, t.corner, i)
                         /\ t.reads[i] = Even(t.group, t.corner, i)
      /\ {t.writes[i] : i \in Dims} \cap {t.reads[i] : i \in Dims} = {}

\* C5 witness: tasks of both parities were issued, for a group and corner other than 0
C5_Witness ==
  /\ PassGroup > 0 /\ PassCorner > 0
  /\ \E a, b \in DOMAIN tasks :
       /\ Len(tasks[a]) > 0 /\ tasks[a][1].even
       /\ Len(tasks[b]) > 0 /\ ~tasks[b][1].even

\* the chunks from which chunk ch is reached by at most n steps to an upstream
\* neighbour, ch itself included
RECURSIVE UpstreamWithin(_, _)
UpstreamWithin(ch, n) ==
  IF n = 0 THEN {ch}
  ELSE LET near == UpstreamWithin(ch, n - 1)
       IN  near \cup ({UpstreamChunk(u, i) : u \in near, i \in Axes} \cap Chunks(grid))
UpstreamOf(ch) == UpstreamWithin(ch, num_wavefronts(grid)) \ {ch}
Independent(ch1, ch2) == ch1 \notin UpstreamOf(ch2) /\ ch2 \notin UpstreamOf(ch1)
Dispatched(ch) == Len(tasks[ch]) > 0

\* C19: for every corner, two distinct chunks of one wavefront, the wavefront
\* of a chunk being the sum over the axes of its chunk coordinate counted from
\* the side the corner starts at, are independent: neither is an upstream
\* neighbour of the other, directly or through other chunks; so are any two
\* chunks the pass has dispatched in one wavefront, which may run at once.
C19_WavefrontChunksIndependent ==
  /\ \A ch1 \in Chunks(grid) : \A ch2 \in Chunks(grid) :
       (ch1 # ch2 /\ chunk_wavefront(PassCorner, grid, ch1)
                      = chunk_wavefront(PassCorner, grid, ch2))
         => Independent(ch1, ch2)
  /\ \A ch1 \in DOMAIN tasks : \A ch2 \in DOMAIN tasks :
       (ch1 # ch2 /\ Dispatched(ch1) /\ Dispatched(ch2)
          /\ Current(ch1).wavefront = Current(ch2).wavefront)
         => Independent(ch1, ch2)
C19_Witness ==
  /\ PassCorner \notin {0, 7}
  /\ \E ch1 \in DOMAIN tasks : \E ch2 \in DOMAIN tasks :
       /\ ch1 # ch2
       /\ Dispatched(ch1) /\ Dispatched(ch2)
       /\ Current(ch1).st = "running" /\ Current(ch2).st = "running"
       /\ Current(ch1).wavefront = Current(ch2).wavefront
       /\ Current(ch1).wavefront > 0
       /\ UpstreamOf(ch1) # {} /\ UpstreamOf(ch2) # {}
\* the statement with the diagonal d = s_x*cx + s_y*cy + s_z*cz, s in {0, 1}
\* being the corner's bits
C19_DiagonalChunksIndependent ==
  \A ch1 \in Chunks(grid) : \A ch2 \in Chunks(grid) :
    (ch1 # ch2 /\ diagonal_01(PassCorner, grid, ch1) = diagonal_01(PassCorner, grid, ch2))
      => Independent(ch1, ch2)

(***************************************************************************)
(* MMSReduction: non-exclusive apply and fold (mms.cc)                     *)
(***************************************************************************)
MAX(x, y) == IF x > y THEN x ELSE y
MIN(x, y) == IF x < y THEN x ELSE y

\* a value above every error value of the model
INFINITY == MaxVal + 1
identity == <<-INFINITY, INFINITY, 0>>

Threads == 1 .. MaxThreads
Vals == 0 .. MaxVal
\* slot 1 is [0] of the source (max), slot 2 is [1] (min), slot 3 is [2] (sum)
Slots == 1 .. 3

\* thread t calls apply<false> when t is odd and fold<false> when t is even
op_of(t) == IF t % 2 = 1 THEN "apply" ELSE "fold"

\* newval of a slot's loop body, from the oldval read and the call's rhs
apply_newval(slot, oldval, rhs) ==
  CASE slot = 1 -> MAX(oldval, rhs[1])
    [] slot = 2 -> MIN(oldval, rhs[2])
    [] slot = 3 -> oldval + rhs[3]
fold_newval(slot, oldval, rhs2) ==
  CASE slot = 1 -> MAX(oldval, rhs2[1])
    [] slot = 2 -> MIN(oldval, rhs2[2])
    [] slot = 3 -> oldval + rhs2[3]

\* __sync_bool_compare_and_swap(target, oldval, newval): whether it stored, and
\* the target afterwards
PlainStore(target, oldval, newval) == [ok |-> TRUE, mem |-> newval]
sync_bool_compare_and_swap(target, oldval, newval) ==
  [ok |-> target = oldval, mem |-> IF target = oldval THEN newval ELSE target]

MMSIdle ==
  /\ lhs = identity
  /\ lhs_init = identity
  /\ mms_thr = <<>>

\* the MomentTriples (max, min, sum) a comparison over two cells can return
CompareResults ==
  {<<p[1], p[2], p[1] + p[2]>> : p \in {q \in Vals \X Vals : q[2] <= q[1]}}

\* The target holds the identity or an earlier result; every thread is about to
\* enter its call with the MomentTriple of a comparison.
MMSInit ==
  /\ lhs_init \in {identity, <<MaxVal, 0, 1>>}
  /\ lhs = lhs_init
  /\ mms_thr \in [Threads -> {[rhs |-> r, slot |-> 1, at |-> "read",
                               oldval |-> 0, newval |-> 0, retried |-> FALSE]
                                : r \in CompareResults}]

\* oldval.as_int = *target; newval.as_float = ...
MMSRead(t, newval) ==
  /\ mms_thr[t].slot \in Slots
  /\ mms_thr[t].at = "read"
  /\ mms_thr' = [mms_thr EXCEPT ![t].oldval = lhs[mms_thr[t].slot],
                                ![t].newval = newval,
                                ![t].at = "cas"]
  /\ UNCHANGED <<lhs, lhs_init>>

\* while (!__sync_bool_compare_and_swap(target, oldval.as_int, newval.as_int))
MMSCas(t) ==
  /\ mms_thr[t].slot \in Slots
  /\ mms_thr[t].at = "cas"
  /\ LET r == sync_bool_compare_and_swap(lhs[mms_thr[t].slot], mms_thr[t].oldval,
                                         mms_thr[t].newval)
     IN  /\ lhs' = [lhs EXCEPT ![mms_thr[t].slot] = r.mem]
         /\ mms_thr' = [mms_thr EXCEPT ![t].at = "read",
                                       ![t].oldval = 0,
                                       ![t].newval = 0,
                                       ![t].slot = IF r.ok THEN @ + 1 ELSE @,
                                       ![t].retried = @ \/ ~r.ok]
  /\ UNCHANGED lhs_init

ApplyRead ==
  /\ \E t \in DOMAIN mms_thr : op_of(t) = "apply" /\
       MMSRead(t, apply_newval(mms_thr[t].slot, lhs[mms_thr[t].slot], mms_thr[t].rhs))
  /\ UNCHANGED <<sweep_vars, sched_vars, fold_vars, fixup_vars, toc_vars, cos_vars, quad_vars, vec_vars, step_vars, cmp_vars, mr_vars, vfold_vars, idx_vars, bnd_vars, gpu_vars>>
ApplyCas ==
  /\ \E t \in DOMAIN mms_thr : op_of(t) = "apply" /\ MMSCas(t)
  /\ UNCHANGED <<sweep_vars, sched_vars, fold_vars, fixup_vars, toc_vars, cos_vars, quad_vars, vec_vars, step_vars, cmp_vars, mr_vars, vfold_vars, idx_vars, bnd_vars, gpu_vars>>
FoldRead ==
  /\ \E t \in DOMAIN mms_thr : op_of(t) = "fold" /\
       MMSRead(t, fold_newval(mms_thr[t].slot, lhs[mms_thr[t].slot], mms_thr[t].rhs))
  /\ UNCHANGED <<sweep_vars, sched_vars, fold_vars, fixup_vars, toc_vars, cos_vars, quad_vars, vec_vars, step_vars, cmp_vars, mr_vars, vfold_vars, idx_vars, bnd_vars, gpu_vars>>
FoldCas ==
  /\ \E t \in DOMAIN mms_thr : op_of(t) = "fold" /\ MMSCas(t)
  /\ UNCHANGED <<sweep_vars, sched_vars, fold_vars, fixup_vars, toc_vars, cos_vars, quad_vars, vec_vars, step_vars, cmp_vars, mr_vars, vfold_vars, idx_vars, bnd_vars, gpu_vars>>

MMSNext == ApplyRead \/ ApplyCas \/ FoldRead \/ FoldCas

(***************************************************************************)
(* MMSReduction: properties                                                *)
(***************************************************************************)
RECURSIVE MaxUpTo(_), MinUpTo(_), SumUpTo(_)
MaxUpTo(n) ==
  IF n = 0 THEN lhs_init[1]
  ELSE IF mms_thr[n].rhs[1] > MaxUpTo(n - 1) THEN mms_thr[n].rhs[1] ELSE MaxUpTo(n - 1)
MinUpTo(n) ==
  IF n = 0 THEN lhs_init[2]
  ELSE IF mms_thr[n].rhs[2] < MinUpTo(n - 1) THEN mms_thr[n].rhs[2] ELSE MinUpTo(n - 1)
SumUpTo(n) == IF n = 0 THEN lhs_init[3] ELSE SumUpTo(n - 1) + mms_thr[n].rhs[3]
AllReturned == \A t \in DOMAIN mms_thr : mms_thr[t].slot = 4

\* C8: threads running the non-exclusive apply<false> and fold<false> concurrently
\* on one target triple: after all calls have returned, under every interleaving
\* of their reads and compare-and-swaps, slot 0 is the max of the initial value
\* and all rhs[0], slot 1 the min of the initial value and all rhs[1], and slot 2
\* the initial value plus the sum of all rhs[2].
C8_ConcurrentMMSReduction ==
  (mms_thr # <<>> /\ AllReturned) =>
     /\ lhs[1] = MaxUpTo(MaxThreads)
     /\ lhs[2] = MinUpTo(MaxThreads)
     /\ lhs[3] = SumUpTo(MaxThreads)

\* C8 witness: all calls returned, two of them adding a non-zero rhs[2], one
\* after a failed compare-and-swap; all three slots changed
C8_Witness ==
  /\ mms_thr # <<>> /\ AllReturned
  /\ \E t \in DOMAIN mms_thr : mms_thr[t].retried
  /\ \E a, b \in DOMAIN mms_thr : a # b /\ mms_thr[a].rhs[3] > 0 /\ mms_thr[b].rhs[3] > 0
  /\ lhs[1] > lhs_init[1] /\ lhs[2] < lhs_init[2]
  /\ lhs[3] >= lhs_init[3] + 2

(***************************************************************************)
(* Flux reduction of the corner sweeps (sweep.cc, end of the cell kernel)  *)
(***************************************************************************)
Angles == 1 .. NumAngles
FoldCorners == 0 .. MaxFoldCorner

\* total of the loop over ang: psi[ang] = Snap::w[ang] * pc[ang]; total += psi[ang]
RECURSIVE total_upto(_, _, _)
total_upto(wt, pc, n) ==
  IF n = 0 THEN 0 ELSE total_upto(wt, pc, n - 1) + wt[n] * pc[n]
TotalLastAngle(wt, pc) == wt[NumAngles] * pc[NumAngles]
total(wt, pc) == total_upto(wt, pc, NumAngles)

\* the weights: uniform, or increasing with the angle
Weights == {[a \in Angles |-> 1], [a \in Angles |-> a]}

FoldIdle ==
  /\ flux = 0
  /\ flux_init = 0
  /\ Snap_w = <<>>
  /\ corner_pc = <<>>
  /\ fold_thr = <<>>

\* Every corner task has computed the cell's pc and is about to reduce.
FoldInit ==
  /\ flux_init \in {0, MaxPc}
  /\ flux = flux_init
  /\ Snap_w \in Weights
  /\ corner_pc \in [FoldCorners -> [Angles -> {-1, MaxPc}]]
  /\ fold_thr = [c \in FoldCorners |-> [at |-> "total", total |-> 0, oldval |-> 0,
                                        folded |-> 0]]

\* the loop computing total
FoldTotal ==
  /\ \E c \in DOMAIN fold_thr :
       /\ fold_thr[c].at = "total"
       /\ fold_thr' = [fold_thr EXCEPT ![c].total = total(Snap_w, corner_pc[c]),
                                       ![c].at = "read"]
  /\ UNCHANGED <<flux, flux_init, Snap_w, corner_pc>>
  /\ UNCHANGED <<sweep_vars, sched_vars, mms_vars, fixup_vars, toc_vars, cos_vars, quad_vars, vec_vars, step_vars, cmp_vars, mr_vars, vfold_vars, idx_vars, bnd_vars, gpu_vars>>

\* SumReduction::fold<false>(*local_flux, total): read of the target
SumFoldRead ==
  /\ \E c \in DOMAIN fold_thr :
       /\ fold_thr[c].at = "read"
       /\ fold_thr' = [fold_thr EXCEPT ![c].oldval = flux, ![c].at = "cas"]
  /\ UNCHANGED <<flux, flux_init, Snap_w, corner_pc>>
  /\ UNCHANGED <<sweep_vars, sched_vars, mms_vars, fixup_vars, toc_vars, cos_vars, quad_vars, vec_vars, step_vars, cmp_vars, mr_vars, vfold_vars, idx_vars, bnd_vars, gpu_vars>>

\* SumReduction::fold<false>: compare-and-swap of oldval + total
SumFoldCas ==
  /\ \E c \in DOMAIN fold_thr :
       /\ fold_thr[c].at = "cas"
       /\ IF flux = fold_thr[c].oldval
          THEN /\ flux' = fold_thr[c].oldval + fold_thr[c].total
               /\ fold_thr' = [fold_thr EXCEPT ![c].at = "done", ![c].oldval = 0,
                                               ![c].folded = @ + 1]
          ELSE /\ flux' = flux
               /\ fold_thr' = [fold_thr EXCEPT ![c].at = "read", ![c].oldval = 0]
  /\ UNCHANGED <<flux_init, Snap_w, corner_pc>>
  /\ UNCHANGED <<sweep_vars, sched_vars, mms_vars, fixup_vars, toc_vars, cos_vars, quad_vars, vec_vars, step_vars, cmp_vars, mr_vars, vfold_vars, idx_vars, bnd_vars, gpu_vars>>

FoldNext == FoldTotal \/ SumFoldRead \/ SumFoldCas

(***************************************************************************)
(* Flux reduction: properties                                              *)
(***************************************************************************)
RECURSIVE WeightedSum(_, _), Contributions(_)
\* sum over the angles 1 .. n of w[a] * pc[a] of corner c
WeightedSum(c, n) ==
  IF n = 0 THEN 0 ELSE WeightedSum(c, n - 1) + Snap_w[n] * corner_pc[c][n]
\* sum of the contributions of the corners of set S
Contributions(S) ==
  IF S = {} THEN 0
  ELSE LET c == CHOOSE x \in S : TRUE
       IN  WeightedSum(c, NumAngles) + Contributions(S \ {c})

\* C7: for a cell and group, in any interleaving and completion order of the
\* corner tasks, flux[g, cell] is its value before the sweep plus the sum of the
\* contributions (sum over angles of w[a]*pc[a]) of the corner tasks that have
\* completed their reduction, each applied exactly once: after all tasks have
\* completed, the initial value plus the contributions of all corners.
C7_FluxIsInitialPlusContributions ==
  /\ flux = flux_init
            + Contributions({c \in DOMAIN fold_thr : fold_thr[c].at = "done"})
  /\ \A c \in DOMAIN fold_thr :
       fold_thr[c].folded = IF fold_thr[c].at = "done" THEN 1 ELSE 0

\* C7 witness: all corner tasks completed, with different non-zero contributions
C7_Witness ==
  /\ fold_thr # <<>>
  /\ \A c \in DOMAIN fold_thr : fold_thr[c].at = "done"
  /\ WeightedSum(0, NumAngles) > 0
  /\ WeightedSum(1, NumAngles) < 0
  /\ WeightedSum(0, NumAngles) + WeightedSum(1, NumAngles) # 0
  /\ Snap_w[NumAngles] > 1

(***************************************************************************)
(* Cell kernel: initial solution and negative-flux fixup (sweep.cc)        *)
(***************************************************************************)
\* doubles are modelled as exact fractions <<numerator, denominator>>, denominator > 0
R(n) == <<n, 1>>
RAdd(a, b) == <<a[1] * b[2] + b[1] * a[2], a[2] * b[2]>>
RSub(a, b) == <<a[1] * b[2] - b[1] * a[2], a[2] * b[2]>>
RMul(a, b) == <<a[1] * b[1], a[2] * b[2]>>
RScale(n, a) == <<n * a[1], a[2]>>
RHalf(a) == <<a[1], 2 * a[2]>>
RDivInt(a, n) == <<a[1], a[2] * n>>
RNegative(a) == a[1] < 0
RNonPositive(a) == a[1] <= 0

\* den < tolr with tolr = 1.0e-12: den is a sum of integers in the model, so it is
\* below tolr exactly when it is not positive
below_tolr(den) == den <= 0

\* fx_hv_x[ang] = 2.0 * pc[ang] - psii[ang], for all angles
fx_hv(pc, incoming) == [ang \in Angles |-> RSub(RScale(2, pc[ang]), incoming[ang])]
\* if (fx_hv_x[ang] < 0.0) hv_x[ang] = 0.0, for all angles
HvReset(fx, hv) == [ang \in Angles |-> IF RNegative(fx[ang]) THEN 0 ELSE 1]
hv_after(fx, hv) == [ang \in Angles |-> IF RNegative(fx[ang]) THEN 0 ELSE hv[ang]]
\* the negative_fluxes++ of one of the counting loops
negatives(fx) == Cardinality({ang \in Angles : RNegative(fx[ang])})

\* the pc of the initial solution: psi plus the incoming terms, times dinv
initial_pc(k, c) ==
  [ang \in Angles |->
     LET faces == RAdd(RAdd(RAdd(c.psi[ang], RScale(k.mu_hi[ang], c.psii[ang])),
                            RScale(k.eta_hj[ang], c.psij[ang])),
                       RScale(k.xi_hk[ang], c.psik[ang]))
         timed == IF k.vdelt # 0
                  THEN RAdd(faces, RScale(k.vdelt, c.time_flux_in[ang]))
                  ELSE faces
     IN  RMul(timed, k.dinv[ang])]

\* den of the recomputation, from the recomputed numerator pc and the flags
fixup_den(k, c, ang, pc) ==
  IF RNonPositive(pc) THEN 0
  ELSE k.t_xs + k.mu_hi[ang] * c.hv_x[ang] + k.eta_hj[ang] * c.hv_y[ang]
              + k.xi_hk[ang] * c.hv_z[ang]
              + (IF k.vdelt # 0 THEN k.vdelt * c.hv_t[ang] ELSE 0)

\* the pc recomputed from the flags c.hv_* at the end of a pass
fixup_pc(k, c) ==
  [ang \in Angles |->
     LET faces == RAdd(RAdd(RScale(k.mu_hi[ang] * (1 + c.hv_x[ang]), c.psii[ang]),
                            RScale(k.eta_hj[ang] * (1 + c.hv_y[ang]), c.psij[ang])),
                       RScale(k.xi_hk[ang] * (1 + c.hv_z[ang]), c.psik[ang]))
         all == IF k.vdelt # 0
                THEN RAdd(faces, RScale(k.vdelt * (1 + c.hv_t[ang]), c.time_flux_in[ang]))
                ELSE faces
         pc == RAdd(c.psi[ang], RHalf(all))
         den == fixup_den(k, c, ang, pc)
     IN  IF below_tolr(den) THEN R(0) ELSE RDivInt(pc, den)]

\* the counting part of a pass: fx_hv_*, the flags, and negative_fluxes
count_negatives(k, c) ==
  LET fx_x == fx_hv(c.pc, c.psii)
      fx_y == fx_hv(c.pc, c.psij)
      fx_z == fx_hv(c.pc, c.psik)
      fx_t == IF k.vdelt # 0 THEN fx_hv(c.pc, c.time_flux_in) ELSE c.fx_hv_t
  IN  [c EXCEPT !.fx_hv_x = fx_x, !.hv_x = hv_after(fx_x, c.hv_x),
                !.fx_hv_y = fx_y, !.hv_y = hv_after(fx_y, c.hv_y),
                !.fx_hv_z = fx_z, !.hv_z = hv_after(fx_z, c.hv_z),
                !.fx_hv_t = fx_t,
                !.hv_t = IF k.vdelt # 0 THEN hv_after(fx_t, c.hv_t) ELSE c.hv_t,
                !.negative_fluxes = negatives(fx_x) + negatives(fx_y) + negatives(fx_z)
                                    + (IF k.vdelt # 0 THEN negatives(fx_t) ELSE 0)]

\* psii[ang] = fx_hv_x[ang] * hv_x[ang], for all angles
OutgoingUnclamped(fx, hv) == fx
outgoing(fx, hv) == [ang \in Angles |-> RScale(hv[ang], fx[ang])]
\* the no-fixup branch: psii[ang] = 2.0 * pc[ang] - psii[ang]
outgoing_nofixup(pc, incoming) ==
  [ang \in Angles |-> RSub(RScale(2, pc[ang]), incoming[ang])]

Zeroes == [ang \in Angles |-> R(0)]
Ones == [ang \in Angles |-> 1]
\* mu[ang]*hi grows with the angle; eta[ang]*hj and xi[ang]*hk are 1
Cosines == [ang \in Angles |-> ang]

FixupIdle ==
  /\ kin = <<>>
  /\ kcell = <<>>
  /\ fixup_at = "idle"
  /\ passes = 0

\* The kernel of a cell after its angular source and its incoming fluxes were
\* read. Incoming fluxes are not negative, the source may be; dinv is the
\* inverse of t_xs + mu*hi + eta*hj + xi*hk + vdelt.
FixupInit ==
  /\ \E fixup \in BOOLEAN, vdelt \in {0, MaxVdelt}, t_xs \in {0, MaxXs},
        mu_hi \in {Cosines},
        psi \in [Angles -> {-MaxSrc, MaxSrc}],
        fi \in [Angles -> {0, MaxFlux}], fj \in [Angles -> {0, 2 * MaxFlux}],
        fk \in [Angles -> {0, 5 * MaxFlux}], ft \in [Angles -> {0, MaxFlux}] :
       /\ vdelt = 0 => ft = [ang \in Angles |-> 0]
       /\ kin = [flux_fixup |-> fixup, vdelt |-> vdelt, t_xs |-> t_xs,
                 mu_hi |-> mu_hi, eta_hj |-> Ones, xi_hk |-> Ones,
                 dinv |-> [ang \in Angles |-> <<1, t_xs + mu_hi[ang] + 2 + vdelt>>],
                 psii |-> [ang \in Angles |-> R(fi[ang])],
                 psij |-> [ang \in Angles |-> R(fj[ang])],
                 psik |-> [ang \in Angles |-> R(fk[ang])],
                 time_flux_in |-> [ang \in Angles |-> R(ft[ang])]]
       /\ kcell = [psi |-> [ang \in Angles |-> R(psi[ang])],
                  pc |-> Zeroes,
                  psii |-> kin.psii, psij |-> kin.psij, psik |-> kin.psik,
                  time_flux_in |-> kin.time_flux_in, time_flux_out |-> Zeroes,
                  hv_x |-> Ones, hv_y |-> Ones, hv_z |-> Ones, hv_t |-> Ones,
                  fx_hv_x |-> Zeroes, fx_hv_y |-> Zeroes, fx_hv_z |-> Zeroes,
                  fx_hv_t |-> Zeroes,
                  negative_fluxes |-> 0, old_negative_fluxes |-> 0]
  /\ fixup_at = "start"
  /\ passes = 0

\* the loop of the model stops following a kernel after PassCap passes
PassCap == 4 * NumAngles + 4

\* Compute the initial solution; with flux_fixup, set the flags and enter the loop.
CellSolve ==
  /\ fixup_at = "start"
  /\ kin.flux_fixup
  /\ kcell' = [kcell EXCEPT !.pc = initial_pc(kin, kcell),
                          !.hv_x = Ones, !.hv_y = Ones, !.hv_z = Ones, !.hv_t = Ones,
                          !.old_negative_fluxes = 0]
  /\ fixup_at' = "loop"
  /\ UNCHANGED <<kin, passes>>
  /\ UNCHANGED <<sweep_vars, sched_vars, mms_vars, fold_vars, toc_vars, cos_vars, quad_vars, vec_vars, step_vars, cmp_vars, mr_vars, vfold_vars, idx_vars, bnd_vars, gpu_vars>>

\* An iteration of while (true) that does not break: count, then recompute pc.
FixupPass ==
  /\ fixup_at = "loop"
  /\ passes < PassCap
  /\ LET counted == count_negatives(kin, kcell) IN
       /\ counted.negative_fluxes # kcell.old_negative_fluxes
       /\ kcell' = [counted EXCEPT !.old_negative_fluxes = counted.negative_fluxes,
                                  !.pc = fixup_pc(kin, counted)]
  /\ passes' = passes + 1
  /\ UNCHANGED <<kin, fixup_at>>
  /\ UNCHANGED <<sweep_vars, sched_vars, mms_vars, fold_vars, toc_vars, cos_vars, quad_vars, vec_vars, step_vars, cmp_vars, mr_vars, vfold_vars, idx_vars, bnd_vars, gpu_vars>>

\* The iteration that breaks, and the outgoing fluxes computed after the loop.
FixupExit ==
  /\ fixup_at = "loop"
  /\ LET counted == count_negatives(kin, kcell) IN
       /\ counted.negative_fluxes = kcell.old_negative_fluxes
       /\ kcell' = [counted EXCEPT
                     !.psii = outgoing(counted.fx_hv_x, counted.hv_x),
                     !.psij = outgoing(counted.fx_hv_y, counted.hv_y),
                     !.psik = outgoing(counted.fx_hv_z, counted.hv_z),
                     !.time_flux_out = IF kin.vdelt # 0
                                       THEN outgoing(counted.fx_hv_t, counted.hv_t)
                                       ELSE counted.time_flux_out]
  /\ passes' = passes + 1
  /\ fixup_at' = "exit"
  /\ UNCHANGED kin
  /\ UNCHANGED <<sweep_vars, sched_vars, mms_vars, fold_vars, toc_vars, cos_vars, quad_vars, vec_vars, step_vars, cmp_vars, mr_vars, vfold_vars, idx_vars, bnd_vars, gpu_vars>>

\* Without flux_fixup: the initial solution and the outgoing fluxes from it.
NoFixup ==
  /\ fixup_at = "start"
  /\ ~kin.flux_fixup
  /\ LET pc == initial_pc(kin, kcell) IN
       kcell' = [kcell EXCEPT
                  !.pc = pc,
                  !.psii = outgoing_nofixup(pc, kcell.psii),
                  !.psij = outgoing_nofixup(pc, kcell.psij),
                  !.psik = outgoing_nofixup(pc, kcell.psik),
                  !.time_flux_out = IF kin.vdelt # 0
                                    THEN outgoing_nofixup(pc, kcell.time_flux_in)
                                    ELSE kcell.time_flux_out]
  /\ fixup_at' = "exit"
  /\ UNCHANGED <<kin, passes>>
  /\ UNCHANGED <<sweep_vars, sched_vars, mms_vars, fold_vars, toc_vars, cos_vars, quad_vars, vec_vars, step_vars, cmp_vars, mr_vars, vfold_vars, idx_vars, bnd_vars, gpu_vars>>

FixupNext == CellSolve \/ FixupPass \/ FixupExit \/ NoFixup

(***************************************************************************)
(* Cell kernel: properties                                                 *)
(***************************************************************************)
\* the number of hv flags of the cell the loop can clear
NumFlags == (IF kin.vdelt # 0 THEN 4 ELSE 3) * NumAngles
ClearedFlags ==
  Cardinality({ang \in Angles : kcell.hv_x[ang] = 0})
  + Cardinality({ang \in Angles : kcell.hv_y[ang] = 0})
  + Cardinality({ang \in Angles : kcell.hv_z[ang] = 0})
  + Cardinality({ang \in Angles : kcell.hv_t[ang] = 0})

\* C9: for every input of the cell (incoming face fluxes, source, cross-section,
\* vdelt) the fixup loop terminates after a bounded number of passes: flags only
\* go from 1 to 0, so the loop makes at most one pass more than two plus the
\* number of flags, and at most two passes more than the flags it has cleared.
C9_FixupLoopTerminates ==
  fixup_at \in {"loop", "exit"} =>
     /\ passes <= NumFlags + 2
     /\ passes <= ClearedFlags + 2
     /\ fixup_at = "loop" => passes < PassCap

\* C9 witness: the loop exited after four passes, each of the first three having
\* cleared a flag of the same angle
C9_Witness ==
  /\ fixup_at = "exit" /\ kin.flux_fixup
  /\ passes >= 4
  /\ \E ang \in Angles :
       kcell.hv_x[ang] = 0 /\ kcell.hv_y[ang] = 0 /\ kcell.hv_z[ang] = 0

hv_flags(c) == <<c.hv_x, c.hv_y, c.hv_z, c.hv_t>>

\* the cell with its incoming fluxes, which the exit overwrites with the outgoing ones
with_incoming(c) ==
  [c EXCEPT !.psii = kin.psii, !.psij = kin.psij, !.psik = kin.psik]
\* no flag is set by the step: each one keeps its value or goes from 1 to 0
FlagsOnlyCleared ==
  \A i \in 1 .. 4 : \A ang \in Angles :
     hv_flags(kcell')[i][ang] <= hv_flags(kcell)[i][ang]

\* C26, as the code has it: the loop exits when the pass counts as many negative
\* fx_hv values as the pass before it (none, in the first pass). The exiting
\* pass leaves pc alone and sets no flag, but it may clear flags: pc is the
\* one computed from the flags before the exiting pass, and a flag that is
\* cleared in any pass has a negative fx_hv.
C26_ExitOnEqualCount ==
  [][FixupExit =>
       /\ kcell'.negative_fluxes = kcell.old_negative_fluxes
       /\ kcell'.pc = kcell.pc
       /\ passes >= 1 => kcell.pc = fixup_pc(kin, kcell)
       /\ passes = 0 => hv_flags(kcell') = hv_flags(kcell)
       /\ FlagsOnlyCleared]_vars

\* C26 witness: the loop has exited after a pass that cleared a flag: the pc
\* of some angle is not the one its final flags give
C26_Witness ==
  /\ fixup_at = "exit" /\ kin.flux_fixup /\ passes >= 2
  /\ \E ang \in Angles :
       /\ kcell.hv_x[ang] = 0
       /\ kcell.pc[ang][1] > 0
       /\ fixup_pc(kin, with_incoming(kcell))[ang][1] = 0

\* C26: the fixup loop exits only at a fixed point of the flags: the counting
\* pass that triggers the exit changes no hv_x / hv_y / hv_z / hv_t flag, so
\* the pc behind the outgoing fluxes and the flux reduction was computed with
\* the final flag values.
C26_ExitPassChangesNoFlag ==
  [][FixupExit => hv_flags(kcell') = hv_flags(kcell)]_vars

(***************************************************************************)
(* TestOuterConvergence::cpu_implementation (outer.cc)                     *)
(***************************************************************************)
\* Field values are whole multiples of a unit that is at least tolr = 1.0e-12,
\* so a value has magnitude below tolr exactly when it is 0.
fabs(v) == IF v < 0 THEN -v ELSE v
RAbs(a) == <<fabs(a[1]), fabs(a[2])>>
\* a > b for fractions with positive denominators
RGreater(a, b) == a[1] * b[2] > b[1] * a[2]
RGreaterEq(a, b) == a[1] * b[2] >= b[1] * a[2]

fabs_below_tolr(v) == v = 0

\* the values Snap::convergence_eps takes: 1/100 and 1/200
ConvergenceEps == {<<1, 100>>, <<1, 200>>}
epsi(eps) == RScale(100, eps)

\* the entries (group, cell) of the two regions
Entries(ng, nc) == (1 .. ng) \X (1 .. nc)
PrevLevels == {-MaxOuterFlux, 0, MaxOuterFlux}

\* df of one cell (lines 382-389)
DfZeroWhenTiny(flux0, prev) ==
  IF fabs_below_tolr(prev) THEN R(0) ELSE RAbs(RSub(<<flux0, prev>>, R(1)))

outer_df(flux0, prev) ==
  LET tiny    == fabs_below_tolr(fabs(prev))
      flux0po == IF tiny THEN 1 ELSE prev
      df      == IF tiny THEN 0 ELSE 1
  IN RAbs(RSub(<<flux0, flux0po>>, R(df)))

\* if (df > epsi) return false  (line 393)
ReachesEpsi(df, eps) == RGreaterEq(df, epsi(eps))

exceeds_epsi(df, eps) == RGreater(df, epsi(eps))

\* if (!inner_converged) return false  (lines 363-365)
NeverReturnsEarly(in) == FALSE

returns_early(in) == ~in.inner_converged

TOCIdle ==
  /\ toc_in = <<>>
  /\ toc_seen = {}
  /\ toc_last = <<>>
  /\ toc_ret = "idle"

TOCInit ==
  /\ \E ng \in 1 .. MaxOuterGroups, nc \in 1 .. MaxOuterCells :
       /\ ng * nc <= MaxOuterEntries
       /\ toc_in \in [inner_converged : BOOLEAN,
                      convergence_eps : ConvergenceEps,
                      num_groups : {ng},
                      num_cells : {nc},
                      fa_flux0 : [Entries(ng, nc) -> 0 .. MaxOuterFlux],
                      fa_flux0po : [Entries(ng, nc) -> PrevLevels]]
  /\ toc_seen = {}
  /\ toc_last = <<>>
  /\ toc_ret = "entry"

\* The future says the inner iteration did not converge: return false.
TOCInnerNotConverged ==
  /\ toc_ret = "entry"
  /\ returns_early(toc_in)
  /\ toc_ret' = "false"
  /\ UNCHANGED <<toc_in, toc_seen, toc_last>>
  /\ UNCHANGED <<sweep_vars, sched_vars, mms_vars, fold_vars, fixup_vars, cos_vars, quad_vars, vec_vars, step_vars, cmp_vars, mr_vars, vfold_vars, idx_vars, bnd_vars, gpu_vars>>

TOCEnterLoops ==
  /\ toc_ret = "entry"
  /\ ~returns_early(toc_in)
  /\ toc_ret' = "loop"
  /\ UNCHANGED <<toc_in, toc_seen, toc_last>>
  /\ UNCHANGED <<sweep_vars, sched_vars, mms_vars, fold_vars, fixup_vars, cos_vars, quad_vars, vec_vars, step_vars, cmp_vars, mr_vars, vfold_vars, idx_vars, bnd_vars, gpu_vars>>

\* The entries the iterators may give next: the groups one after the other,
\* and all cells of a group before the next group; within that, any order.
toc_open(g) == {e \in Entries(toc_in.num_groups, toc_in.num_cells) \ toc_seen : e[1] = g}
toc_begun == {g \in 1 .. toc_in.num_groups :
                toc_open(g) # {} /\ \E e \in toc_seen : e[1] = g}
toc_candidates ==
  IF toc_begun # {} THEN UNION {toc_open(g) : g \in toc_begun}
  ELSE Entries(toc_in.num_groups, toc_in.num_cells) \ toc_seen

\* One iteration of the inner loop, for one cell of one group.
TOCCell ==
  /\ toc_ret = "loop"
  /\ \E e \in toc_candidates :
       LET df == outer_df(toc_in.fa_flux0[e], toc_in.fa_flux0po[e])
       IN IF exceeds_epsi(df, toc_in.convergence_eps)
          THEN /\ toc_ret' = "false"
               /\ toc_last' = e
               /\ UNCHANGED toc_seen
          ELSE /\ toc_seen' = toc_seen \cup {e}
               /\ UNCHANGED <<toc_ret, toc_last>>
  /\ UNCHANGED toc_in
  /\ UNCHANGED <<sweep_vars, sched_vars, mms_vars, fold_vars, fixup_vars, cos_vars, quad_vars, vec_vars, step_vars, cmp_vars, mr_vars, vfold_vars, idx_vars, bnd_vars, gpu_vars>>

\* Both loops are over: return true.
TOCReturnTrue ==
  /\ toc_ret = "loop"
  /\ toc_seen = Entries(toc_in.num_groups, toc_in.num_cells)
  /\ toc_ret' = "true"
  /\ UNCHANGED <<toc_in, toc_seen, toc_last>>
  /\ UNCHANGED <<sweep_vars, sched_vars, mms_vars, fold_vars, fixup_vars, cos_vars, quad_vars, vec_vars, step_vars, cmp_vars, mr_vars, vfold_vars, idx_vars, bnd_vars, gpu_vars>>

TOCNext == TOCInnerNotConverged \/ TOCEnterLoops \/ TOCCell \/ TOCReturnTrue

(***************************************************************************)
(* TestOuterConvergence: properties                                        *)
(***************************************************************************)
TOCEntries == Entries(toc_in.num_groups, toc_in.num_cells)
TOCReturned == toc_ret \in {"true", "false"}

\* C12: the task returns false whenever the inner-convergence future is false,
\* whatever flux and flux_prev hold and without looking at any cell; it returns
\* true only if the inner iteration converged.
C12_FalseWhenInnerNotConverged ==
  /\ toc_ret = "true" => toc_in.inner_converged
  /\ (toc_ret \in {"loop", "true", "false"} /\ ~toc_in.inner_converged) =>
       (toc_ret = "false" /\ toc_seen = {} /\ toc_last = <<>>)

\* flux equals flux_prev in every cell, nowhere near zero, and the task still
\* returned false because the inner iteration had not converged
C12_Witness ==
  /\ toc_ret = "false"
  /\ ~toc_in.inner_converged
  /\ Cardinality(TOCEntries) > 1
  /\ \A e \in TOCEntries :
       toc_in.fa_flux0[e] = toc_in.fa_flux0po[e] /\ toc_in.fa_flux0[e] # 0

\* |flux| > epsi, with epsi = 100 * convergence_eps
FluxAboveEpsi(e) ==
  fabs(toc_in.fa_flux0[e]) * toc_in.convergence_eps[2] >
    100 * toc_in.convergence_eps[1]

\* C13 (as the code has it): a cell whose previous flux has magnitude below
\* 1e-12 contributes df = |flux| (flux_prev is taken as 1 and nothing is
\* subtracted); the test passes such a cell when |flux| <= epsi and returns
\* false at it when |flux| > epsi.
C13_TinyPreviousFluxComparesFlux ==
  toc_ret \in {"loop", "true", "false"} =>
    /\ \A e \in toc_seen : toc_in.fa_flux0po[e] = 0 => ~FluxAboveEpsi(e)
    /\ (toc_last # <<>> /\ toc_in.fa_flux0po[toc_last] = 0) => FluxAboveEpsi(toc_last)

\* the test passed some cells and then returned false at a cell whose previous
\* flux is zero
C13_Witness ==
  /\ toc_ret = "false"
  /\ toc_seen # {}
  /\ toc_last # <<>>
  /\ toc_in.fa_flux0po[toc_last] = 0

\* C13 (as stated): a cell whose previous flux is below 1e-12 contributes
\* df = 0 and never makes the test return false.
C13_TinyPreviousFluxNeverFails ==
  ~(toc_ret = "false" /\ toc_last # <<>> /\ toc_in.fa_flux0po[toc_last] = 0)

\* df <= epsi for the cell, with df = |flux/flux_prev - 1|, or |flux| where
\* flux_prev has magnitude below 1e-12
cell_within_epsi(e) ==
  LET f == toc_in.fa_flux0[e]
      p == toc_in.fa_flux0po[e]
      eps == toc_in.convergence_eps
  IN IF p = 0 THEN fabs(f) * eps[2] <= 100 * eps[1]
     ELSE fabs(f - p) * eps[2] <= 100 * eps[1] * fabs(p)

\* df = epsi exactly
cell_at_epsi(e) ==
  LET f == toc_in.fa_flux0[e]
      p == toc_in.fa_flux0po[e]
      eps == toc_in.convergence_eps
  IN p # 0 /\ fabs(f - p) * eps[2] = 100 * eps[1] * fabs(p)

\* C14 (as the code has it): when the inner iteration converged the task
\* returns true if and only if every group and cell has df <= epsi, where
\* df = |flux/flux_prev - 1| for |flux_prev| >= 1e-12 and df = |flux| otherwise;
\* df = epsi counts as converged; the order of the visits does not matter.
C14_TrueIffEveryCellWithinEpsi ==
  (TOCReturned /\ toc_in.inner_converged) =>
    (toc_ret = "true" <=> \A e \in TOCEntries : cell_within_epsi(e))

\* returned true with a cell exactly at epsi and a cell with zero previous flux
C14_Witness ==
  /\ toc_ret = "true"
  /\ \E e \in TOCEntries : cell_at_epsi(e)
  /\ \E e \in TOCEntries : toc_in.fa_flux0po[e] = 0

\* df = |flux/flux_prev - 1| <= epsi, as written: with flux_prev = 0 the
\* quotient is infinite or not a number, and the comparison is false
relative_change_within_epsi(e) ==
  LET f == toc_in.fa_flux0[e]
      p == toc_in.fa_flux0po[e]
      eps == toc_in.convergence_eps
  IN p # 0 /\ fabs(f - p) * eps[2] <= 100 * eps[1] * fabs(p)

\* C14 (as stated): when the inner iteration converged the task returns true
\* if and only if |flux/flux_prev - 1| <= epsi in every group and cell.
C14_TrueIffRelativeChangeWithinEpsi ==
  (TOCReturned /\ toc_in.inner_converged) =>
    (toc_ret = "true" <=> \A e \in TOCEntries : relative_change_within_epsi(e))

(***************************************************************************)
(* CalcOuterSource::cpu_implementation (outer.cc): the group-to-group      *)
(* source of the zeroth moment                                             *)
(***************************************************************************)
\* the smaller of the two, without the subtractions
SmallerOf(a, b) == IF a < b THEN a ELSE b
RECURSIVE gcd(_, _)
gcd(a, b) ==
  IF a < b THEN gcd(a, b - a)
  ELSE IF a > b THEN gcd(a - b, b)
  ELSE a

\* the points of a domain [lo, hi]
DomPoints(dom) ==
  {p \in (dom.lo[1] .. dom.hi[1]) \X (dom.lo[2] .. dom.hi[2]) \X (dom.lo[3] .. dom.hi[3]) :
     TRUE}
in_dom(dom, p) == \A i \in Axes : dom.lo[i] <= p[i] /\ p[i] <= dom.hi[i]
max_xyz(dom) == [i \in Axes |-> dom.hi[i] - dom.lo[i] + 1]
strip_size(dom) == gcd(max_xyz(dom)[1], 32)

NumMaterials == 2
\* a cell of qo holds <<value>> once the task stored to it
Unwritten == <<>>

\* if (g1 == g2) continue
SkipNothing(g1, g2) == FALSE

skip_diagonal(g1, g2) == g1 = g2

\* qo0 after the g2 loop has run for the groups 1 .. n
RECURSIVE qo0_upto(_, _, _, _)
qo0_upto(in, g1, p, n) ==
  IF n = 0 THEN in.fa_qi0[g1][p]
  ELSE IF skip_diagonal(g1, n) THEN qo0_upto(in, g1, p, n - 1)
  ELSE qo0_upto(in, g1, p, n - 1) +
         in.fa_slgg[g1][<<in.fa_mat[p], n>>] * in.fa_flux0[n][p]

COSIdle ==
  /\ cos_in = <<>>
  /\ fa_qo0 = <<>>
  /\ cos_at = [st |-> "idle", at |-> <<0, 0, 0>>]
  /\ cos_stray = {}

\* The fields hold small values that differ from group to group, from cell to
\* cell and from material to material.
COSInit ==
  /\ \E lo \in {<<0, 0, 0>>, <<MaxOuterLo, 0, 0>>, <<0, MaxOuterLo, MaxOuterLo>>},
        ex \in 1 .. MaxOuterX, ey \in {1, MaxOuterYZ}, ez \in {1, MaxOuterYZ},
        ng \in 1 .. MaxOuterGroups,
        sd \in {0, 1}, sb \in {0, 1}, m0 \in {0, 1} :
       \E fb \in [1 .. ng -> {0, MaxOuterFlux}] :
         LET dom == [lo |-> lo, hi |-> <<lo[1] + ex - 1, lo[2] + ey - 1, lo[3] + ez - 1>>]
         IN /\ cos_in =
                 [dom |-> dom,
                  num_groups |-> ng,
                  fa_qi0 |-> [g \in 1 .. ng |-> [p \in DomPoints(dom) |-> g + p[2]]],
                  fa_flux0 |-> [g \in 1 .. ng |->
                                  [p \in DomPoints(dom) |-> fb[g] + (p[1] % 2)]],
                  fa_slgg |-> [g1 \in 1 .. ng |->
                                 [mg \in (0 .. NumMaterials - 1) \X (1 .. ng) |->
                                    IF g1 = mg[2] THEN sd + mg[1]
                                    ELSE sb + mg[1] + 2 * g1 + mg[2]]],
                  fa_mat |-> [p \in DomPoints(dom) |->
                                (p[1] + p[2] + p[3] + m0) % NumMaterials]]
            /\ fa_qo0 = [g \in 1 .. ng |-> [p \in DomPoints(dom) |-> Unwritten]]
  /\ cos_at = [st |-> "loop", at |-> <<0, 0, 0>>]
  /\ cos_stray = {}

\* the points fa[x+i][y][z] the strip at the loop counters touches
strip_points(dom, at) ==
  {<<at[1] + i, at[2], at[3]>> : i \in 0 .. strip_size(dom) - 1}

\* the loop counters after the strip: x += strip_size, then y++, then z++
cos_next(dom, at) ==
  LET mx == max_xyz(dom)
  IN IF at[1] + strip_size(dom) < mx[1]
     THEN [st |-> "loop", at |-> <<at[1] + strip_size(dom), at[2], at[3]>>]
     ELSE IF at[2] + 1 < mx[2] THEN [st |-> "loop", at |-> <<0, at[2] + 1, at[3]>>]
     ELSE IF at[3] + 1 < mx[3] THEN [st |-> "loop", at |-> <<0, 0, at[3] + 1>>]
     ELSE [st |-> "done", at |-> at]

\* One x-strip: the flux strip is read for all groups, then qo0 is computed and
\* stored for every group and every cell of the strip. An access outside the
\* task's domain has no defined effect on its fields; it is remembered.
CalcStrip ==
  /\ cos_at.st = "loop"
  /\ LET dom == cos_in.dom
         pts == strip_points(dom, cos_at.at)
     IN /\ fa_qo0' = [g1 \in 1 .. cos_in.num_groups |->
                        [p \in DomPoints(dom) |->
                           IF p \in pts
                           THEN <<qo0_upto(cos_in, g1, p, cos_in.num_groups)>>
                           ELSE fa_qo0[g1][p]]]
        /\ cos_stray' = cos_stray \cup {p \in pts : ~in_dom(dom, p)}
        /\ cos_at' = cos_next(dom, cos_at.at)
  /\ UNCHANGED cos_in
  /\ UNCHANGED <<sweep_vars, sched_vars, mms_vars, fold_vars, fixup_vars, toc_vars, quad_vars, vec_vars, step_vars, cmp_vars, mr_vars, vfold_vars, idx_vars, bnd_vars, gpu_vars>>

\* An access outside the task's domain may also end the task.
CalcFault ==
  /\ cos_at.st = "loop"
  /\ \E p \in strip_points(cos_in.dom, cos_at.at) : ~in_dom(cos_in.dom, p)
  /\ cos_at' = [cos_at EXCEPT !.st = "fault"]
  /\ UNCHANGED <<cos_in, fa_qo0, cos_stray>>
  /\ UNCHANGED <<sweep_vars, sched_vars, mms_vars, fold_vars, fixup_vars, toc_vars, quad_vars, vec_vars, step_vars, cmp_vars, mr_vars, vfold_vars, idx_vars, bnd_vars, gpu_vars>>

COSNext == CalcStrip \/ CalcFault

(***************************************************************************)
(* CalcOuterSource: properties                                             *)
(***************************************************************************)
RECURSIVE SumOverGroups(_, _)
SumOverGroups(S, f) ==
  IF S = {} THEN 0
  ELSE LET g == CHOOSE x \in S : TRUE
       IN f[g] + SumOverGroups(S \ {g}, f)

\* qi[g1,cell] + sum over g2 # g1 of slgg[mat(cell)][g1][g2][0] * flux[g2,cell]
OuterSource(g1, p) ==
  cos_in.fa_qi0[g1][p] +
    SumOverGroups((1 .. cos_in.num_groups) \ {g1},
                  [g2 \in 1 .. cos_in.num_groups |->
                     cos_in.fa_slgg[g1][<<cos_in.fa_mat[p], g2>>] * cos_in.fa_flux0[g2][p]])

COSWritten == {gp \in (1 .. cos_in.num_groups) \X DomPoints(cos_in.dom) :
                 fa_qo0[gp[1]][gp[2]] # Unwritten}

\* C15: every qo[g1,cell] the task has set is qi[g1,cell] plus the sum over
\* g2 # g1 of slgg[mat(cell)][g1][g2][0] * flux[g2,cell], which involves neither
\* flux[g1,cell] nor slgg[.][g1][g1]; a task whose domain starts at the origin
\* has set all of them when it ends; flux, qi, slgg and the material map never
\* change.
C15_StateOuterSource ==
  cos_at.st # "idle" =>
    /\ \A gp \in COSWritten : fa_qo0[gp[1]][gp[2]] = <<OuterSource(gp[1], gp[2])>>
    /\ (cos_at.st = "done" /\ cos_in.dom.lo = <<0, 0, 0>>) =>
         COSWritten = (1 .. cos_in.num_groups) \X DomPoints(cos_in.dom)

C27_TouchesExactlyItsDomain ==
  cos_at.st # "idle" =>
    /\ cos_stray = {}
    /\ cos_at.st = "done" =>
         COSWritten = (1 .. cos_in.num_groups) \X DomPoints(cos_in.dom)

\* the x offsets of the strip that starts at x
StripOffsets(x, s) == {x + i : i \in 0 .. s - 1}
\* the values of x of the loop `for (x = 0; x < max_x; x += strip_size)`
StripStarts(max_x, s) == {x \in 0 .. max_x - 1 : x % s = 0}
IsCommonDivisor(d, a, b) == d >= 1 /\ a % d = 0 /\ b % d = 0

\* C28: for every x extent max_x >= 1, gcd(max_x, 32) returns a positive common
\* divisor of max_x and 32 (the greatest one), so the strips of width
\* strip_size partition [0, max_x): every x offset is in exactly one strip, no
\* element x+i of a strip reaches max_x, and the index g*strip_size+i into
\* flux_strip is below num_groups*strip_size.
C28_StripsPartitionTheExtent ==
  /\ \A a \in 1 .. MaxStripX :
       /\ IsCommonDivisor(gcd(a, 32), a, 32)
       /\ \A d \in 1 .. a : IsCommonDivisor(d, a, 32) => d <= gcd(a, 32)
  /\ cos_at.st # "idle" =>
       LET max_x == max_xyz(cos_in.dom)[1]
           s == strip_size(cos_in.dom)
       IN /\ IsCommonDivisor(s, max_x, 32)
          /\ \A xo \in 0 .. max_x - 1 :
               Cardinality({x \in StripStarts(max_x, s) : xo \in StripOffsets(x, s)}) = 1
          /\ \A x \in StripStarts(max_x, s) : \A xo \in StripOffsets(x, s) : xo < max_x
          /\ cos_at.st = "loop" =>
               /\ cos_at.at[1] \in StripStarts(max_x, s)
               /\ \A p \in strip_points(cos_in.dom, cos_at.at) : p[1] < max_x
          /\ \A g \in 0 .. cos_in.num_groups - 1 : \A i \in 0 .. s - 1 :
               g * s + i < cos_in.num_groups * s

\* C28 witness: a task with two groups and strips of two cells each has ended
\* (x extent 2), and so has one with strips of one cell (x extent 3)
C28_Witness ==
  /\ cos_at.st = "done"
  /\ cos_in.num_groups = 2
  /\ strip_size(cos_in.dom) = 2
  /\ max_xyz(cos_in.dom)[1] = 2
  /\ gcd(3, 32) = 1

(***************************************************************************)
(* The fluxm reduction at the end of the cell kernel (sweep.cc 575-590;    *)
(* the same code in the SSE and AVX variants, 1146-1158 and 1760-1774)     *)
(***************************************************************************)
\* a MomentQuad holds four doubles (snap.h)
QuadSlots == 0 .. 3

\* the coefficient tables Snap::ec of the model
EcTables(nm) ==
  {[i \in 0 .. Cardinality(Corners) * nm * NumAngles - 1 |-> ((i + k) % 3) + 1] :
     k \in {0, 1}}

\* total of the loop over ang for moment l: total += ec[offset+ang] * psi[ang],
\* with psi[ang] = w[ang] * pc[ang] and
\* offset = l * num_angles + corner * num_angles * num_moments
RECURSIVE moment_total_upto(_, _, _)
moment_total_upto(in, l, n) ==
  IF n = 0 THEN 0
  ELSE moment_total_upto(in, l, n - 1) +
         in.ec[l * NumAngles + in.corner * NumAngles * in.num_moments + (n - 1)] *
           (in.w[n] * in.pc[n])

\* MomentQuad quad; for l in 1 .. num_moments-1 : quad[l] = total
\* (a fresh MomentQuad is all zeroes)
local_quad(in) ==
  [s \in QuadSlots |->
     IF 1 <= s /\ s < in.num_moments THEN moment_total_upto(in, s, NumAngles) ELSE 0]

\* QuadReduction::fold: elementwise sum
QuadFold(lhsq, rhsq) == [s \in QuadSlots |-> lhsq[s] + rhsq[s]]

QuadIdle ==
  /\ qr_in = <<>>
  /\ fluxm = <<>>
  /\ fluxm_init = <<>>
  /\ qr_at = "idle"

\* The kernel has computed pc and folded the scalar flux.
QuadInit ==
  /\ \E nm \in 1 .. MaxMoments :
       qr_in \in [num_moments : {nm},
                  corner : Corners,
                  ec : EcTables(nm),
                  w : Weights,
                  pc : [Angles -> 0 .. MaxPc]]
  /\ fluxm \in {[s \in QuadSlots |-> 0], [s \in QuadSlots |-> s + 1]}
  /\ fluxm_init = fluxm
  /\ qr_at = "start"

\* if (Snap::num_moments > 1) { ... QuadReduction::fold<false>(*local_fluxm, quad); }
FluxmReduction ==
  /\ qr_at = "start"
  /\ qr_in.num_moments > 1
  /\ fluxm' = QuadFold(fluxm, local_quad(qr_in))
  /\ qr_at' = "done"
  /\ UNCHANGED <<qr_in, fluxm_init>>
  /\ UNCHANGED <<sweep_vars, sched_vars, mms_vars, fold_vars, fixup_vars, toc_vars, cos_vars, vec_vars, step_vars, cmp_vars, mr_vars, vfold_vars, idx_vars, bnd_vars, gpu_vars>>

\* with num_moments = 1 there is no fluxm reduction
FluxmSkip ==
  /\ qr_at = "start"
  /\ ~(qr_in.num_moments > 1)
  /\ qr_at' = "done"
  /\ UNCHANGED <<qr_in, fluxm, fluxm_init>>
  /\ UNCHANGED <<sweep_vars, sched_vars, mms_vars, fold_vars, fixup_vars, toc_vars, cos_vars, vec_vars, step_vars, cmp_vars, mr_vars, vfold_vars, idx_vars, bnd_vars, gpu_vars>>

QuadNext == FluxmReduction \/ FluxmSkip

(***************************************************************************)
(* fluxm reduction: properties                                             *)
(***************************************************************************)
\* sum over the angles 1 .. n of ec[c*num_moments*num_angles + l*num_angles + a]
\* * w[a] * pc[a]
RECURSIVE MomentSum(_, _)
MomentSum(l, n) ==
  IF n = 0 THEN 0
  ELSE MomentSum(l, n - 1) +
         qr_in.ec[qr_in.corner * qr_in.num_moments * NumAngles + l * NumAngles + (n - 1)] *
           qr_in.w[n] * qr_in.pc[n]

\* C16: after the reduction step with num_moments > 1, slot l-1 of fluxm[g,cell]
\* has grown by the moment sum of l, for every l in 1 .. num_moments-1, and no
\* other slot has changed.
C16_MomentFoldedIntoSlotBelow ==
  (qr_at = "done" /\ qr_in.num_moments > 1) =>
    \A s \in QuadSlots :
      fluxm[s] = fluxm_init[s] +
                   (IF s + 1 < qr_in.num_moments THEN MomentSum(s + 1, NumAngles) ELSE 0)

(***************************************************************************)
(* The chunk sweep in its three variants (sweep.cc: cpu_implementation,    *)
(* sse_implementation, avx_implementation) and the regions it reads        *)
(***************************************************************************)
Variants == {"scalar", "sse", "avx"}

\* In the SSE and AVX variants psij and psik are pointers: into the incoming
\* ghost buffer at local index 0, into the pencil or plane otherwise. In the
\* scalar variant they are buffers of the task, filled by memcpy.
psij_is_pointer(variant) == variant \in {"sse", "avx"}

VecRect(in) == ChunkRect(<<0, 0, 0>>, per_chunk(in.snap))
VecCells(in) ==
  {local_point(in.corner, VecRect(in), idx) :
     idx \in (0 .. in.snap.nx_per_chunk - 1) \X (0 .. in.snap.ny_per_chunk - 1)
               \X (0 .. in.snap.nz_per_chunk - 1)}

\* the locations of the regions the launcher requests READ_ONLY: per cell
\* qtot, dinv, time_flux_in and t_xs of the group; vdelt; and the incoming
\* ghost cells of the three axes
ReadOnlyFields == {"qtot", "dinv", "time_flux_in", "t_xs"}
GhostInLoc(in, i, pt) == <<"ghost_in", i, ghost_point(in.corner, pt, i)>>
ReadOnlyLocs(in) ==
  (ReadOnlyFields \X VecCells(in)) \cup {<<"vdelt">>}
    \cup {GhostInLoc(in, i, pt) : i \in Axes, pt \in VecCells(in)}

\* what a read of scratch memory returns: what was stored there, or, when the
\* malloc'ed slot was never stored to, any bit pattern: one that is no flux of
\* the sweep, or by chance the flux of the cell one step upstream
Garbage == <<"garbage">>
scratch_read(val, i, idx) ==
  IF val = Uninit THEN {Garbage, KernelOut(i, Upstream(idx, i))} ELSE {val}

VecIdle ==
  /\ vec_in = <<>>
  /\ vec_ro = <<>>
  /\ vec_ro_init = <<>>
  /\ vec_at = [st |-> "idle", idx |-> <<0, 0, 0>>]
  /\ vec_psii = Uninit
  /\ vec_pencil = <<>>
  /\ vec_plane = <<>>
  /\ vec_ghost_out = {}
  /\ vec_used = {}

VecInit ==
  /\ vec_in \in [variant : Variants,
                 corner : Corners,
                 snap : [nx_per_chunk : {1, MaxPerChunk}, ny_per_chunk : {1, MaxPerChunk},
                         nz_per_chunk : {1, MaxPerChunk}]]
  /\ vec_ro = [loc \in ReadOnlyLocs(vec_in) |-> <<"in", loc>>]
  /\ vec_ro_init = vec_ro
  /\ vec_at = [st |-> "loop", idx |-> <<0, 0, 0>>]
  /\ vec_psii = Uninit
  /\ vec_pencil = [o \in 0 .. vec_in.snap.nx_per_chunk - 1 |-> Uninit]
  /\ vec_plane = [o \in 0 .. vec_in.snap.ny_per_chunk * vec_in.snap.nx_per_chunk - 1
                    |-> Uninit]
  /\ vec_ghost_out = {}
  /\ vec_used = {}

\* One iteration of the triple loop: the incoming fluxes are located, the
\* kernel computes the outgoing fluxes and stores them to psii, psij, psik,
\* and the last cells along an axis store to the outgoing ghost buffer.
VecCell ==
  /\ vec_at.st = "loop"
  /\ LET in  == vec_in
         rng == range(VecRect(in))
         idx == vec_at.idx
         pt  == local_point(in.corner, VecRect(in), idx)
         ptr == psij_is_pointer(in.variant)
         \* psij[ang] = ..., psik[ang] = ... go where the pointers point
         into_ghost(i) == ptr /\ idx[i] = 0
         into_scratch(i) == IF ptr THEN idx[i] > 0 ELSE ~last_along(in.snap, idx, i)
         nxt == next_idx(idx, rng)
         \* the y and z face flux the kernel consumes: the incoming ghost cell at
         \* local index 0, the pencil or plane slot otherwise
         psij_in == IF idx[2] = 0 THEN {vec_ro[GhostInLoc(in, 2, pt)]}
                    ELSE scratch_read(vec_pencil[pencil_offset(idx, rng)], 2, idx)
         psik_in == IF idx[3] = 0 THEN {vec_ro[GhostInLoc(in, 3, pt)]}
                    ELSE scratch_read(vec_plane[plane_offset(idx, rng)], 3, idx)
     IN /\ \E uy \in psij_in, uz \in psik_in :
             vec_used' = vec_used \cup {[idx |-> idx, i |-> 2, val |-> uy],
                                        [idx |-> idx, i |-> 3, val |-> uz]}
        /\ vec_psii' = KernelOut(1, idx)
        /\ vec_ro' = [loc \in DOMAIN vec_ro |->
                        IF into_ghost(2) /\ loc = GhostInLoc(in, 2, pt) THEN KernelOut(2, idx)
                        ELSE IF into_ghost(3) /\ loc = GhostInLoc(in, 3, pt)
                             THEN KernelOut(3, idx)
                        ELSE vec_ro[loc]]
        /\ vec_pencil' = IF into_scratch(2)
                         THEN [vec_pencil EXCEPT ![pencil_offset(idx, rng)] = KernelOut(2, idx)]
                         ELSE vec_pencil
        /\ vec_plane' = IF into_scratch(3)
                        THEN [vec_plane EXCEPT ![plane_offset(idx, rng)] = KernelOut(3, idx)]
                        ELSE vec_plane
        /\ vec_ghost_out' = vec_ghost_out \cup
             {[i |-> i, at |-> pt, val |-> KernelOut(i, idx)] :
                i \in {j \in Axes : last_along(in.snap, idx, j)}}
        /\ vec_at' = IF nxt[3] < rng[3] THEN [st |-> "loop", idx |-> nxt]
                     ELSE [st |-> "done", idx |-> idx]
  /\ UNCHANGED <<vec_in, vec_ro_init>>
  /\ UNCHANGED <<sweep_vars, sched_vars, mms_vars, fold_vars, fixup_vars, toc_vars, cos_vars, quad_vars, step_vars, cmp_vars, mr_vars, vfold_vars, idx_vars, bnd_vars, gpu_vars>>

VecNext == VecCell

(***************************************************************************)
(* Sweep variants: properties                                              *)
(***************************************************************************)
\* C17: in each variant the task leaves every location of its READ_ONLY
\* regions (qtot, dinv, t_xs, time_flux_in, vdelt, the incoming ghost buffers)
\* as it found it.
C17_ReadOnlyRegionsUnchanged ==
  vec_at.st # "idle" => vec_ro = vec_ro_init

\* C23: in the SSE and AVX chunk sweeps, as in the scalar one, the y face flux
\* consumed at local cell (x, y, z) with y > 0 is the outgoing y face flux of
\* (x, y-1, z), and the z face flux consumed at z > 0 is the outgoing z face
\* flux of (x, y, z-1): the outgoing flux of a cell at local y = 0 (z = 0) is
\* in its pencil (plane) slot before the cell at y = 1 (z = 1) reads the slot.
C23_ScratchHandsFluxDownstream ==
  \A u \in vec_used :
    u.idx[u.i] > 0 => u.val = KernelOut(u.i, Upstream(u.idx, u.i))

(***************************************************************************)
(* Time steps: the corner tasks of the sweep passes, the locations they     *)
(* write and the time-flux arrays                                           *)
(***************************************************************************)
SNAP_ENERGY_GROUP_FIELD(group) == [group |-> group]

\* the time-flux arrays exist twice; the task of a corner is handed that
\* corner's array of each set
TimeFluxArray(set, corner) == <<"time_flux", set, corner>>
FluxArray == <<"flux">>
FluxmArray == <<"fluxm">>

\* a step change after which the arrays keep their roles
KeepTimeFlux(at) == [at EXCEPT !.step = @ + 1, !.pass = 1]
\* the start of a time step: time_flux_in <- time_flux_out
rotate(at) ==
  [at EXCEPT !.tf_in = at.tf_out, !.tf_out = at.tf_in, !.step = @ + 1, !.pass = 1]

\* the cells whose local index along axis i is the last one of the chunk
last_cells(corner, bounds, i) ==
  {pt \in ChunkCells(bounds) :
     pt[i] = IF stride_positive(corner, i) THEN bounds.hi[i] ELSE bounds.lo[i]}

\* the locations a task writes: <<array, field, cell>>
ghost_writes(in, corner, even) ==
  {[corner |-> corner, kind |-> "ghost",
    loc |-> <<FluxArray, ghost_write(even, in.group, corner, i), pt>>] :
     <<i, pt>> \in {ip \in Axes \X ChunkCells(in.bounds) :
                      ip[2] \in last_cells(corner, in.bounds, ip[1])}}
time_flux_writes(at, in, corner) ==
  IF in.vdelt # 0
    THEN {[corner |-> corner, kind |-> "time_flux_out",
           loc |-> <<TimeFluxArray(at.tf_out, corner),
                     SNAP_ENERGY_GROUP_FIELD(in.group), pt>>] :
            pt \in ChunkCells(in.bounds)}
    ELSE {}
flux_folds(in, corner) ==
  {[corner |-> corner, kind |-> "flux",
    loc |-> <<FluxArray, SNAP_ENERGY_GROUP_FIELD(in.group), pt>>] :
     pt \in ChunkCells(in.bounds)}
fluxm_folds(in, corner) ==
  IF in.num_moments > 1
    THEN {[corner |-> corner, kind |-> "fluxm",
           loc |-> <<FluxmArray, SNAP_ENERGY_GROUP_FIELD(in.group), pt>>] :
            pt \in ChunkCells(in.bounds)}
    ELSE {}
task_writes(at, in, corner, even) ==
  ghost_writes(in, corner, even) \cup time_flux_writes(at, in, corner)
    \cup flux_folds(in, corner) \cup fluxm_folds(in, corner)

StepBounds == {[lo |-> <<0, 0, 0>>, hi |-> <<0, 0, 0>>],
               [lo |-> <<0, 0, 0>>, hi |-> <<MaxPerChunk - 1, 0, 0>>]}
StepCorners == {cs \in SUBSET Corners : Cardinality(cs) = MaxStepCorners}
Pending == [st |-> "pending", even |-> TRUE]

StepIdle ==
  /\ ts_in = <<>>
  /\ ts_at = [step |-> 0, pass |-> 0, tf_in |-> "even", tf_out |-> "odd"]
  /\ ts_mem = <<>>
  /\ ts_task = <<>>
  /\ ts_reads = {}
  /\ ts_writes = {}
  /\ ts_left = <<>>

StepInit ==
  /\ ts_in \in [group : {MaxGroup}, bounds : StepBounds, vdelt : {0, MaxVdelt},
                num_moments : {MaxMoments}, corners : StepCorners]
  /\ ts_at = [step |-> 1, pass |-> 1, tf_in |-> "even", tf_out |-> "odd"]
  /\ ts_mem = [l \in {"even", "odd"} \X ts_in.corners \X ChunkCells(ts_in.bounds) |->
                 [step |-> 0, pass |-> 0]]
  /\ ts_task = [c \in ts_in.corners |-> Pending]
  /\ ts_reads = {}
  /\ ts_writes = {}
  /\ ts_left = <<>>

\* the task of a corner in the current pass: with vdelt # 0 the kernel reads
\* time_flux_in at every cell of the chunk; it writes the ghost fields of its
\* last cells, time_flux_out, and folds into flux and fluxm
CornerTask(c) ==
  /\ ts_at.step > 0
  /\ ts_task[c].st = "pending"
  /\ \E even \in BOOLEAN :
       /\ ts_task' = [ts_task EXCEPT ![c] = [st |-> "done", even |-> even]]
       /\ ts_writes' = ts_writes \cup task_writes(ts_at, ts_in, c, even)
  /\ ts_reads' = ts_reads \cup
       (IF ts_in.vdelt # 0
          THEN {[step |-> ts_at.step, corner |-> c, pt |-> pt,
                 val |-> ts_mem[<<ts_at.tf_in, c, pt>>]] : pt \in ChunkCells(ts_in.bounds)}
          ELSE {})
  /\ ts_mem' = [l \in DOMAIN ts_mem |->
                  IF ts_in.vdelt # 0 /\ l[1] = ts_at.tf_out /\ l[2] = c
                    THEN [step |-> ts_at.step, pass |-> ts_at.pass]
                    ELSE ts_mem[l]]
  /\ UNCHANGED <<ts_in, ts_at, ts_left>>
  /\ UNCHANGED <<sweep_vars, sched_vars, mms_vars, fold_vars, fixup_vars, toc_vars, cos_vars, quad_vars, vec_vars, cmp_vars, mr_vars, vfold_vars, idx_vars, bnd_vars, gpu_vars>>

PassDone == ts_at.step > 0 /\ \A c \in ts_in.corners : ts_task[c].st = "done"

\* another sweep pass of the same time step (the next inner iteration)
NextPass ==
  /\ PassDone
  /\ ts_at.pass < MaxPasses
  /\ ts_at' = [ts_at EXCEPT !.pass = @ + 1]
  /\ ts_task' = [c \in ts_in.corners |-> Pending]
  /\ ts_writes' = {}
  /\ UNCHANGED <<ts_in, ts_mem, ts_reads, ts_left>>
  /\ UNCHANGED <<sweep_vars, sched_vars, mms_vars, fold_vars, fixup_vars, toc_vars, cos_vars, quad_vars, vec_vars, cmp_vars, mr_vars, vfold_vars, idx_vars, bnd_vars, gpu_vars>>

\* the next time step begins once the sweeps of this one are over
NextStep ==
  /\ PassDone
  /\ ts_at.step < MaxTimeSteps
  /\ ts_left' = [l \in ts_in.corners \X ChunkCells(ts_in.bounds) |->
                   ts_mem[<<ts_at.tf_out, l[1], l[2]>>]]
  /\ ts_at' = rotate(ts_at)
  /\ ts_task' = [c \in ts_in.corners |-> Pending]
  /\ ts_writes' = {}
  /\ UNCHANGED <<ts_in, ts_mem, ts_reads>>
  /\ UNCHANGED <<sweep_vars, sched_vars, mms_vars, fold_vars, fixup_vars, toc_vars, cos_vars, quad_vars, vec_vars, cmp_vars, mr_vars, vfold_vars, idx_vars, bnd_vars, gpu_vars>>

StepNext ==
  \/ \E c \in ts_in.corners : CornerTask(c)
  \/ NextPass
  \/ NextStep

(***************************************************************************)
(* Time steps: properties                                                  *)
(***************************************************************************)
Reductions == {"flux", "fluxm"}
StepLaunched == {c \in ts_in.corners : ts_task[c].st # "pending"}

C20_StateTimeFluxContinuity ==
  ts_at.step > 1 =>
    /\ \A r \in ts_reads :
         r.step = ts_at.step =>
           /\ r.val = ts_left[<<r.corner, r.pt>>]
           /\ r.val.step = r.step - 1
    /\ \A l \in DOMAIN ts_left : ts_mem[<<ts_at.tf_in, l[1], l[2]>>] = ts_left[l]
C20_TimeFluxContinuity ==
  /\ []C20_StateTimeFluxContinuity
  /\ [][\A l \in DOMAIN ts_mem :
          ts_mem'[l] # ts_mem[l] => \A r \in ts_reads' : r.step <= ts_mem'[l].step]_vars
C20_Witness ==
  /\ ts_at.step > 1
  /\ Cardinality(ChunkCells(ts_in.bounds)) > 1
  /\ \E r \in ts_reads :
       /\ r.step = ts_at.step
       /\ r.val = ts_left[<<r.corner, r.pt>>]
       /\ r.val.step = r.step - 1
       /\ r.val.pass > 1
  /\ \E c \in ts_in.corners : ts_task[c].st = "pending"

(***************************************************************************)
(* MMSCompare::cpu_implementation (mms.cc)                                 *)
(***************************************************************************)
\* Field values are whole multiples of a unit that is at least tolr = 1.0e-12,
\* so ref_flux < tolr holds exactly when the value is 0 or negative.
ref_below_tolr(ref_flux) == ref_flux <= 0

\* doubles with the two infinities: finite fractions, -INFINITY, INFINITY
Fin(v) == [inf |-> 0, v |-> v]
NegInfinity == [inf |-> -1, v |-> R(0)]
PosInfinity == [inf |-> 1, v |-> R(0)]
REq(a, b) == a[1] * b[2] = b[1] * a[2]
ExtGreater(a, b) ==
  \/ a.inf > b.inf
  \/ a.inf = 0 /\ b.inf = 0 /\ RGreater(a.v, b.v)
ExtEq(a, b) == a.inf = b.inf /\ (a.inf = 0 => REq(a.v, b.v))

\* a df that is zero for a reference below tolr
DfZeroForTinyRef(fl, ref_flux) ==
  IF ref_below_tolr(ref_flux) THEN R(0) ELSE RAbs(RSub(<<fl, ref_flux>>, R(1)))

\* df of one entry (lines 524-531)
compare_df(fl, ref_flux) ==
  LET tiny == ref_below_tolr(ref_flux)
      ref  == IF tiny THEN 1 ELSE ref_flux
      df   == IF tiny THEN 0 ELSE 1
  IN RAbs(RSub(<<fl, ref>>, R(df)))

CmpFlux == -MaxCmpFlux .. MaxCmpFlux
CmpRefFlux == -1 .. MaxCmpFlux

CmpIdle ==
  /\ cmp_in = <<>>
  /\ cmp_at = [st |-> "idle", n |-> 0]
  /\ cmp_acc = <<>>
  /\ cmp_prev = <<>>
  /\ cmp_ret = <<>>

\* min = INFINITY, max = -INFINITY, sum = 0.0
CmpInit ==
  /\ \E num \in 1 .. MaxCmpEntries :
       cmp_in \in [flux : [1 .. num -> CmpFlux], ref_flux : [1 .. num -> CmpRefFlux]]
  /\ cmp_at = [st |-> "loop", n |-> 0]
  /\ cmp_acc = [max |-> NegInfinity, min |-> PosInfinity, sum |-> R(0)]
  /\ cmp_prev = cmp_acc
  /\ cmp_ret = <<>>

\* one iteration of the loops: the next entry (field, cell)
CmpEntry ==
  /\ cmp_at.st = "loop"
  /\ cmp_at.n < Len(cmp_in.flux)
  /\ LET e  == cmp_at.n + 1
         df == Fin(compare_df(cmp_in.flux[e], cmp_in.ref_flux[e]))
     IN  /\ cmp_acc' = [max |-> IF ExtGreater(df, cmp_acc.max) THEN df ELSE cmp_acc.max,
                        min |-> IF ExtGreater(cmp_acc.min, df) THEN df ELSE cmp_acc.min,
                        sum |-> RAdd(cmp_acc.sum, df.v)]
         /\ cmp_at' = [cmp_at EXCEPT !.n = e]
  /\ cmp_prev' = cmp_acc
  /\ UNCHANGED <<cmp_in, cmp_ret>>
  /\ UNCHANGED <<sweep_vars, sched_vars, mms_vars, fold_vars, fixup_vars, toc_vars, cos_vars, quad_vars, vec_vars, step_vars, mr_vars, vfold_vars, idx_vars, bnd_vars, gpu_vars>>

\* result[0] = max; result[1] = min; result[2] = sum; return result
CmpReturn ==
  /\ cmp_at.st = "loop"
  /\ cmp_at.n = Len(cmp_in.flux)
  /\ cmp_ret' = <<cmp_acc.max, cmp_acc.min, Fin(cmp_acc.sum)>>
  /\ cmp_at' = [cmp_at EXCEPT !.st = "done"]
  /\ UNCHANGED <<cmp_in, cmp_acc, cmp_prev>>
  /\ UNCHANGED <<sweep_vars, sched_vars, mms_vars, fold_vars, fixup_vars, toc_vars, cos_vars, quad_vars, vec_vars, step_vars, mr_vars, vfold_vars, idx_vars, bnd_vars, gpu_vars>>

CmpNext == CmpEntry \/ CmpReturn

(***************************************************************************)
(* MMSCompare: properties                                                  *)
(***************************************************************************)
CmpLastTiny == cmp_at.n > 0 /\ ref_below_tolr(cmp_in.ref_flux[cmp_at.n])
CmpLastFlux == Fin(R(fabs(cmp_in.flux[cmp_at.n])))

\* C21: in MMSCompare an entry whose reference flux is below 1e-12 has its
\* reference replaced by 1.0 and contributes the magnitude of its computed
\* flux as error: the sum grows by |flux|, the max becomes the larger of the
\* max so far and |flux|, the min the smaller of the min so far and |flux|;
\* the triple returned holds the three locals.
C21_TinyReferenceAddsFluxMagnitude ==
  /\ CmpLastTiny =>
       /\ REq(cmp_acc.sum, RAdd(cmp_prev.sum, CmpLastFlux.v))
       /\ ExtEq(cmp_acc.max, IF ExtGreater(CmpLastFlux, cmp_prev.max)
                               THEN CmpLastFlux ELSE cmp_prev.max)
       /\ ExtEq(cmp_acc.min, IF ExtGreater(cmp_prev.min, CmpLastFlux)
                               THEN CmpLastFlux ELSE cmp_prev.min)
  /\ cmp_at.st = "done" => cmp_ret = <<cmp_acc.max, cmp_acc.min, Fin(cmp_acc.sum)>>
C21_Witness ==
  /\ cmp_at.st = "done"
  /\ cmp_at.n > 1
  /\ CmpLastTiny
  /\ cmp_in.flux[cmp_at.n] # 0
  /\ cmp_prev.max.inf = 0
  /\ ExtGreater(cmp_ret[1], cmp_prev.max)
  /\ RGreater(cmp_ret[3].v, cmp_prev.sum)
\* the statement that such an entry adds 0 to the sum and cannot raise the max
C21_TinyReferenceAddsNothing ==
  (CmpLastTiny /\ cmp_at.n > 1) =>
    /\ REq(cmp_acc.sum, cmp_prev.sum)
    /\ ExtEq(cmp_acc.max, cmp_prev.max)

(***************************************************************************)
(* MMSReduction called sequentially: exclusive and non-exclusive variants   *)
(***************************************************************************)
\* apply<true> (lines 551-558)
apply_true(l, rhs) ==
  <<IF rhs[1] > l[1] THEN rhs[1] ELSE l[1],
    IF rhs[2] < l[2] THEN rhs[2] ELSE l[2],
    l[3] + rhs[3]>>

\* a fold<true> that leaves slot 1 of the source alone
FoldTrueKeepsMin(rhs1, rhs2) ==
  <<IF rhs2[1] > rhs1[1] THEN rhs2[1] ELSE rhs1[1], rhs1[2], rhs1[3] + rhs2[3]>>
\* fold<true> (lines 589-596)
fold_true(rhs1, rhs2) ==
  <<IF rhs2[1] > rhs1[1] THEN rhs2[1] ELSE rhs1[1],
    IF rhs2[2] < rhs1[2] THEN rhs2[2] ELSE rhs1[2],
    rhs1[3] + rhs2[3]>>

\* apply<false> and fold<false> with no other thread at the target: each of
\* the three loops reads the slot, computes newval and stores it with a
\* compare-and-swap that finds the value it read
apply_false(l, rhs) ==
  <<sync_bool_compare_and_swap(l[1], l[1], apply_newval(1, l[1], rhs)).mem,
    sync_bool_compare_and_swap(l[2], l[2], apply_newval(2, l[2], rhs)).mem,
    sync_bool_compare_and_swap(l[3], l[3], apply_newval(3, l[3], rhs)).mem>>
fold_false(rhs1, rhs2) ==
  <<sync_bool_compare_and_swap(rhs1[1], rhs1[1], fold_newval(1, rhs1[1], rhs2)).mem,
    sync_bool_compare_and_swap(rhs1[2], rhs1[2], fold_newval(2, rhs1[2], rhs2)).mem,
    sync_bool_compare_and_swap(rhs1[3], rhs1[3], fold_newval(3, rhs1[3], rhs2)).mem>>

MonoidTriples ==
  {identity, <<0, 0, 0>>, <<MaxVal, 0, MaxVal>>, <<MaxVal, MaxVal, 1>>,
   <<-MaxVal, -MaxVal, -1>>}
MonoidTargets == {identity, <<MaxVal, 0, 1>>, <<0, MaxVal, 0>>}

MonoidIdle ==
  /\ mr_in = <<>>
  /\ mr_done = {}
  /\ mr_excl = identity
  /\ mr_atom = identity
  /\ mr_last = <<>>

MonoidInit ==
  /\ \E n \in 1 .. MaxTriples :
       mr_in \in [target : MonoidTargets, rhs : [1 .. n -> MonoidTriples]]
  /\ mr_done = {}
  /\ mr_excl = mr_in.target
  /\ mr_atom = mr_in.target
  /\ mr_last = <<>>

\* the next triple, any of those left, is applied: apply<true> to one target,
\* apply<false> to the other
MonoidApply ==
  /\ mr_in # <<>>
  /\ \E i \in DOMAIN mr_in.rhs \ mr_done :
       /\ mr_excl' = apply_true(mr_excl, mr_in.rhs[i])
       /\ mr_atom' = apply_false(mr_atom, mr_in.rhs[i])
       /\ mr_done' = mr_done \cup {i}
       /\ mr_last' = [i |-> i, op |-> "apply", excl |-> mr_excl, atom |-> mr_atom]
  /\ UNCHANGED mr_in
  /\ UNCHANGED <<sweep_vars, sched_vars, mms_vars, fold_vars, fixup_vars, toc_vars, cos_vars, quad_vars, vec_vars, step_vars, cmp_vars, vfold_vars, idx_vars, bnd_vars, gpu_vars>>

\* the next triple is folded: fold<true> into one target, fold<false> into the other
MonoidFold ==
  /\ mr_in # <<>>
  /\ \E i \in DOMAIN mr_in.rhs \ mr_done :
       /\ mr_excl' = fold_true(mr_excl, mr_in.rhs[i])
       /\ mr_atom' = fold_false(mr_atom, mr_in.rhs[i])
       /\ mr_done' = mr_done \cup {i}
       /\ mr_last' = [i |-> i, op |-> "fold", excl |-> mr_excl, atom |-> mr_atom]
  /\ UNCHANGED mr_in
  /\ UNCHANGED <<sweep_vars, sched_vars, mms_vars, fold_vars, fixup_vars, toc_vars, cos_vars, quad_vars, vec_vars, step_vars, cmp_vars, vfold_vars, idx_vars, bnd_vars, gpu_vars>>

MonoidNext == MonoidApply \/ MonoidFold

(***************************************************************************)
(* MMSReduction called sequentially: properties                            *)
(***************************************************************************)
RECURSIVE TripleOver(_, _)
\* (max of slot 0, min of slot 1, sum of slot 2) of the target and the triples
\* with indices in S, taken in the order of the indices
TripleOver(S, n) ==
  IF n = 0 THEN mr_in.target
  ELSE LET t == TripleOver(S, n - 1)
           r == mr_in.rhs[n]
       IN  IF n \in S
             THEN <<IF r[1] > t[1] THEN r[1] ELSE t[1],
                    IF r[2] < t[2] THEN r[2] ELSE t[2], t[3] + r[3]>>
             ELSE t

\* C22: MMSReduction is a commutative monoid on triples: applying or folding
\* the identity (-inf, +inf, 0) leaves the target unchanged; folding or
\* applying a finite multiset of triples in any order yields (max of slot 0,
\* min of slot 1, sum of slot 2); run sequentially on the same inputs the
\* exclusive and the non-exclusive variants give the same result.
C22_ReductionIsCommutativeMonoid ==
  mr_in # <<>> =>
    /\ mr_excl = TripleOver(mr_done, Len(mr_in.rhs))
    /\ mr_atom = mr_excl
    /\ (mr_last # <<>> /\ mr_in.rhs[mr_last.i] = identity) =>
         (mr_excl = mr_last.excl /\ mr_atom = mr_last.atom)
C22_Witness ==
  /\ mr_in # <<>>
  /\ mr_done = DOMAIN mr_in.rhs
  /\ Len(mr_in.rhs) >= 3
  /\ mr_last.op = "fold"
  /\ mr_last.i = 1
  /\ mr_in.rhs[1] = identity
  /\ mr_excl # mr_in.target
  /\ mr_excl[1] > mr_in.target[1] /\ mr_excl[2] < mr_in.target[2]
  /\ mr_excl[3] # mr_in.target[3]
  /\ mr_in.target # identity

(***************************************************************************)
(* The reductions that end the cell kernel, in the scalar, SSE and AVX     *)
(* variants (sweep.cc 565-590, 1140-1158, 1752-1774)                       *)
(***************************************************************************)
\* doubles per vector: 1 (scalar), 2 (__m128d), 4 (__m256d)
vec_width(variant) ==
  CASE variant = "scalar" -> 1 [] variant = "sse" -> 2 [] variant = "avx" -> 4

\* _mm_hadd_pd, _mm256_hadd_pd, _mm256_extractf128_pd, _mm_cvtsd_f64 on
\* vectors written lowest lane first
mm_hadd_pd(a, b) == <<a[1] + a[2], b[1] + b[2]>>
mm256_hadd_pd(a, b) == <<a[1] + a[2], b[1] + b[2], a[3] + a[4], b[3] + b[4]>>
mm256_extractf128_pd(v, imm) == IF imm = 0 THEN <<v[1], v[2]>> ELSE <<v[3], v[4]>>
mm_cvtsd_f64(v) == v[1]

\* vec_total after the loop over ang < num_vec_angles: lane k holds the sum of
\* the doubles arr[width*ang + k]; arr is indexed from 1 here
RECURSIVE vec_total_upto(_, _, _)
vec_total_upto(arr, width, n) ==
  IF n = 0 THEN [k \in 1 .. width |-> 0]
  ELSE LET t == vec_total_upto(arr, width, n - 1)
       IN  [k \in 1 .. width |-> t[k] + arr[width * (n - 1) + k]]

\* the double the variant takes out of vec_total
AllLanes(variant, v) ==
  CASE variant = "scalar" -> v[1]
    [] variant = "sse" -> v[1] + v[2]
    [] variant = "avx" -> v[1] + v[2] + v[3] + v[4]
horizontal(variant, v) ==
  CASE variant = "scalar" -> v[1]
    [] variant = "sse" -> mm_cvtsd_f64(mm_hadd_pd(v, v))
    [] variant = "avx" ->
         LET h == mm256_hadd_pd(v, v)
         IN  mm_cvtsd_f64(mm256_extractf128_pd(mm256_hadd_pd(h, h), 0))

\* psi as the reductions find it: the scalar kernel has just stored
\* w[ang] * pc[ang] in it, the vector kernels still hold the angular source
PsiWeighted(in) == [a \in DOMAIN in.pc |-> in.w[a] * in.pc[a]]
reduced_psi(in) ==
  IF in.variant = "scalar" THEN [a \in DOMAIN in.pc |-> in.w[a] * in.pc[a]] ELSE in.psi

variant_total(in, arr) ==
  horizontal(in.variant,
             vec_total_upto(arr, vec_width(in.variant),
                            Len(in.pc) \div vec_width(in.variant)))

\* total folded into flux
flux_total(in) == variant_total(in, reduced_psi(in))
\* quad[l] = the total of ec[offset + ang] * psi[ang], for l in 1 .. num_moments-1
variant_quad(in) ==
  [s \in QuadSlots |->
     IF 1 <= s /\ s < in.num_moments
       THEN variant_total(in, [a \in DOMAIN in.pc |->
              reduced_psi(in)[a] *
                in.ec[s * Len(in.pc) + in.corner * Len(in.pc) * in.num_moments + (a - 1)]])
       ELSE 0]

VFoldAngles == {4 * k : k \in 1 .. MaxVecGroups}
VFoldEc(nm, na) ==
  {[i \in 0 .. Cardinality(Corners) * nm * na - 1 |-> ((i + k) % 3) + 1] : k \in {0, 1}}

VFoldIdle ==
  /\ vf_in = <<>>
  /\ vf_flux = 0
  /\ vf_fluxm = <<>>
  /\ vf_init = <<>>
  /\ vf_at = "idle"

VFoldInit ==
  /\ \E nm \in 1 .. MaxMoments, na \in VFoldAngles :
       vf_in \in [variant : Variants,
                  num_moments : {nm},
                  corner : {0, 7},
                  ec : VFoldEc(nm, na),
                  w : {[a \in 1 .. na |-> 1], [a \in 1 .. na |-> 1 + (a % 2)]},
                  pc : [1 .. na -> {0, MaxPc}],
                  psi : {[a \in 1 .. na |-> 1], [a \in 1 .. na |-> a]}]
  /\ vf_flux \in {0, MaxPc}
  /\ vf_fluxm \in {[s \in QuadSlots |-> 0], [s \in QuadSlots |-> s + 1]}
  /\ vf_init = [flux |-> vf_flux, fluxm |-> vf_fluxm]
  /\ vf_at = "flux"

\* SumReduction::fold<false>(flux at the cell, total)
VFoldFlux ==
  /\ vf_at = "flux"
  /\ vf_flux' = vf_flux + flux_total(vf_in)
  /\ vf_at' = "fluxm"
  /\ UNCHANGED <<vf_in, vf_fluxm, vf_init>>
  /\ UNCHANGED <<sweep_vars, sched_vars, mms_vars, fold_vars, fixup_vars, toc_vars, cos_vars, quad_vars, vec_vars, step_vars, cmp_vars, mr_vars, idx_vars, bnd_vars, gpu_vars>>

\* if (Snap::num_moments > 1) { ... QuadReduction::fold<false>(fluxm at the cell, quad); }
VFoldFluxm ==
  /\ vf_at = "fluxm"
  /\ vf_in.num_moments > 1
  /\ vf_fluxm' = QuadFold(vf_fluxm, variant_quad(vf_in))
  /\ vf_at' = "done"
  /\ UNCHANGED <<vf_in, vf_flux, vf_init>>
  /\ UNCHANGED <<sweep_vars, sched_vars, mms_vars, fold_vars, fixup_vars, toc_vars, cos_vars, quad_vars, vec_vars, step_vars, cmp_vars, mr_vars, idx_vars, bnd_vars, gpu_vars>>

VFoldSkip ==
  /\ vf_at = "fluxm"
  /\ ~(vf_in.num_moments > 1)
  /\ vf_at' = "done"
  /\ UNCHANGED <<vf_in, vf_flux, vf_fluxm, vf_init>>
  /\ UNCHANGED <<sweep_vars, sched_vars, mms_vars, fold_vars, fixup_vars, toc_vars, cos_vars, quad_vars, vec_vars, step_vars, cmp_vars, mr_vars, idx_vars, bnd_vars, gpu_vars>>

VFoldNext == VFoldFlux \/ VFoldFluxm \/ VFoldSkip

(***************************************************************************)
(* Reductions of the three variants: properties                            *)
(***************************************************************************)
RECURSIVE WeightedPcSum(_), WeightedMomentSum(_, _)
\* sum over the angles 1 .. n of w[a] * pc[a]
WeightedPcSum(n) ==
  IF n = 0 THEN 0 ELSE WeightedPcSum(n - 1) + vf_in.w[n] * vf_in.pc[n]
\* sum over the angles 1 .. n of ec[corner, l, a] * w[a] * pc[a]
WeightedMomentSum(l, n) ==
  IF n = 0 THEN 0
  ELSE WeightedMomentSum(l, n - 1) +
         vf_in.ec[l * Len(vf_in.pc) + vf_in.corner * Len(vf_in.pc) * vf_in.num_moments
                    + (n - 1)] * vf_in.w[n] * vf_in.pc[n]

\* C24: for the same inputs the SSE and AVX variants fold into flux[g, cell]
\* what the scalar variant folds, the sum over the angles of w[a] * pc[a], and
\* fold the scalar variant's moment sums into fluxm[g, cell].
C24_VariantsFoldWeightedSum ==
  /\ vf_at \in {"fluxm", "done"} =>
       vf_flux = vf_init.flux + WeightedPcSum(Len(vf_in.pc))
  /\ vf_at = "done" =>
       \A s \in QuadSlots :
         vf_fluxm[s] = vf_init.fluxm[s] +
           (IF 1 <= s /\ s < vf_in.num_moments
              THEN WeightedMomentSum(s, Len(vf_in.pc)) ELSE 0)

(***************************************************************************)
(* The loops over the angles of one cell and the indexes they use on the   *)
(* per-angle scratch arrays (sweep.cc; cpu 252-590, sse 768-1157,          *)
(* avx 1333-1774).  One record per loop: its line, the bound of its        *)
(* condition, whether every cell runs it, and the scratch arrays it        *)
(* indexes with ang.                                                       *)
(***************************************************************************)
cpu_loops ==
  <<[line |-> 254, bound |-> "num_angles", always |-> TRUE, arrays |-> {"psi"}],
    [line |-> 261, bound |-> "num_angles", always |-> FALSE, arrays |-> {"psi"}],
    [line |-> 272, bound |-> "num_angles", always |-> FALSE, arrays |-> {"psi"}],
    [line |-> 277, bound |-> "num_angles", always |-> TRUE, arrays |-> {"pc", "psi"}],
    [line |-> 302, bound |-> "num_angles", always |-> TRUE, arrays |-> {"pc", "psii"}],
    [line |-> 333, bound |-> "num_angles", always |-> TRUE, arrays |-> {"pc", "psij"}],
    [line |-> 364, bound |-> "num_angles", always |-> TRUE, arrays |-> {"pc", "psik"}],
    [line |-> 372, bound |-> "num_angles", always |-> FALSE, arrays |-> {"pc"}],
    [line |-> 378, bound |-> "num_angles", always |-> TRUE, arrays |-> {"pc"}],
    [line |-> 384, bound |-> "num_angles", always |-> FALSE, arrays |-> {"hv_x"}],
    [line |-> 386, bound |-> "num_angles", always |-> FALSE, arrays |-> {"hv_y"}],
    [line |-> 388, bound |-> "num_angles", always |-> FALSE, arrays |-> {"hv_z"}],
    [line |-> 390, bound |-> "num_angles", always |-> FALSE, arrays |-> {"hv_t"}],
    [line |-> 396, bound |-> "num_angles", always |-> FALSE, arrays |-> {"fx_hv_x", "hv_x", "pc", "psii"}],
    [line |-> 403, bound |-> "num_angles", always |-> FALSE, arrays |-> {"fx_hv_y", "hv_y", "pc", "psij"}],
    [line |-> 410, bound |-> "num_angles", always |-> FALSE, arrays |-> {"fx_hv_z", "hv_z", "pc", "psik"}],
    [line |-> 418, bound |-> "num_angles", always |-> FALSE, arrays |-> {"fx_hv_t", "hv_t", "pc"}],
    [line |-> 430, bound |-> "num_angles", always |-> FALSE, arrays |-> {"hv_t", "hv_x", "hv_y", "hv_z", "pc", "psi", "psii", "psij", "psik"}],
    [line |-> 446, bound |-> "num_angles", always |-> FALSE, arrays |-> {"hv_x", "hv_y", "hv_z", "pc", "psi", "psii", "psij", "psik"}],
    [line |-> 463, bound |-> "num_angles", always |-> FALSE, arrays |-> {"fx_hv_x", "hv_x", "psii"}],
    [line |-> 465, bound |-> "num_angles", always |-> FALSE, arrays |-> {"fx_hv_y", "hv_y", "psij"}],
    [line |-> 467, bound |-> "num_angles", always |-> FALSE, arrays |-> {"fx_hv_z", "hv_z", "psik"}],
    [line |-> 471, bound |-> "num_angles", always |-> FALSE, arrays |-> {"fx_hv_t", "hv_t"}],
    [line |-> 478, bound |-> "num_angles", always |-> FALSE, arrays |-> {"pc", "psii"}],
    [line |-> 480, bound |-> "num_angles", always |-> FALSE, arrays |-> {"pc", "psij"}],
    [line |-> 482, bound |-> "num_angles", always |-> FALSE, arrays |-> {"pc", "psik"}],
    [line |-> 487, bound |-> "num_angles", always |-> FALSE, arrays |-> {"pc"}],
    [line |-> 567, bound |-> "num_angles", always |-> TRUE, arrays |-> {"pc", "psi"}],
    [line |-> 581, bound |-> "num_angles", always |-> FALSE, arrays |-> {"psi"}]>>

sse_loops ==
  <<[line |-> 769, bound |-> "num_vec_angles", always |-> TRUE, arrays |-> {"psi"}],
    [line |-> 776, bound |-> "num_vec_angles", always |-> FALSE, arrays |-> {"psi"}],
    [line |-> 789, bound |-> "num_vec_angles", always |-> FALSE, arrays |-> {"psi"}],
    [line |-> 794, bound |-> "num_vec_angles", always |-> TRUE, arrays |-> {"pc", "psi"}],
    [line |-> 819, bound |-> "num_vec_angles", always |-> TRUE, arrays |-> {"pc", "psii"}],
    [line |-> 851, bound |-> "num_vec_angles", always |-> TRUE, arrays |-> {"pc", "psij"}],
    [line |-> 883, bound |-> "num_angles", always |-> TRUE, arrays |-> {"pc", "psik"}],
    [line |-> 892, bound |-> "num_vec_angles", always |-> FALSE, arrays |-> {"pc"}],
    [line |-> 899, bound |-> "num_vec_angles", always |-> TRUE, arrays |-> {"pc"}],
    [line |-> 905, bound |-> "num_vec_angles", always |-> FALSE, arrays |-> {"hv_x"}],
    [line |-> 907, bound |-> "num_vec_angles", always |-> FALSE, arrays |-> {"hv_y"}],
    [line |-> 909, bound |-> "num_vec_angles", always |-> FALSE, arrays |-> {"hv_z"}],
    [line |-> 911, bound |-> "num_vec_angles", always |-> FALSE, arrays |-> {"hv_t"}],
    [line |-> 918, bound |-> "num_vec_angles", always |-> FALSE, arrays |-> {"fx_hv_x", "hv_x", "pc", "psii"}],
    [line |-> 929, bound |-> "num_vec_angles", always |-> FALSE, arrays |-> {"fx_hv_y", "hv_y", "pc", "psij"}],
    [line |-> 940, bound |-> "num_vec_angles", always |-> FALSE, arrays |-> {"fx_hv_z", "hv_z", "pc", "psik"}],
    [line |-> 952, bound |-> "num_vec_angles", always |-> FALSE, arrays |-> {"fx_hv_t", "hv_t", "pc"}],
    [line |-> 969, bound |-> "num_vec_angles", always |-> FALSE, arrays |-> {"hv_t", "hv_x", "hv_y", "hv_z", "pc", "psi", "psii", "psij", "psik"}],
    [line |-> 1004, bound |-> "num_vec_angles", always |-> FALSE, arrays |-> {"hv_x", "hv_y", "hv_z", "pc", "psi", "psii", "psij", "psik"}],
    [line |-> 1036, bound |-> "num_vec_angles", always |-> FALSE, arrays |-> {"fx_hv_x", "hv_x", "psii"}],
    [line |-> 1038, bound |-> "num_vec_angles", always |-> FALSE, arrays |-> {"fx_hv_y", "hv_y", "psij"}],
    [line |-> 1040, bound |-> "num_vec_angles", always |-> FALSE, arrays |-> {"fx_hv_z", "hv_z", "psik"}],
    [line |-> 1048, bound |-> "num_vec_angles", always |-> FALSE, arrays |-> {"fx_hv_t", "hv_t"}],
    [line |-> 1054, bound |-> "num_vec_angles", always |-> FALSE, arrays |-> {"pc", "psii"}],
    [line |-> 1056, bound |-> "num_vec_angles", always |-> FALSE, arrays |-> {"pc", "psij"}],
    [line |-> 1058, bound |-> "num_vec_angles", always |-> FALSE, arrays |-> {"pc", "psik"}],
    [line |-> 1066, bound |-> "num_vec_angles", always |-> FALSE, arrays |-> {"pc"}],
    [line |-> 1078, bound |-> "num_vec_angles", always |-> FALSE, arrays |-> {"psii"}],
    [line |-> 1089, bound |-> "num_vec_angles", always |-> FALSE, arrays |-> {"psii"}],
    [line |-> 1101, bound |-> "num_vec_angles", always |-> FALSE, arrays |-> {"psij"}],
    [line |-> 1112, bound |-> "num_vec_angles", always |-> FALSE, arrays |-> {"psij"}],
    [line |-> 1123, bound |-> "num_vec_angles", always |-> FALSE, arrays |-> {"psik"}],
    [line |-> 1134, bound |-> "num_vec_angles", always |-> FALSE, arrays |-> {"psik"}],
    [line |-> 1142, bound |-> "num_vec_angles", always |-> TRUE, arrays |-> {"psi"}],
    [line |-> 1152, bound |-> "num_vec_angles", always |-> FALSE, arrays |-> {"psi"}]>>

avx_loops ==
  <<[line |-> 1334, bound |-> "num_vec_angles", always |-> TRUE, arrays |-> {"psi"}],
    [line |-> 1341, bound |-> "num_vec_angles", always |-> FALSE, arrays |-> {"psi"}],
    [line |-> 1356, bound |-> "num_vec_angles", always |-> FALSE, arrays |-> {"psi"}],
    [line |-> 1361, bound |-> "num_vec_angles", always |-> TRUE, arrays |-> {"pc", "psi"}],
    [line |-> 1386, bound |-> "num_vec_angles", always |-> TRUE, arrays |-> {"pc", "psii"}],
    [line |-> 1419, bound |-> "num_vec_angles", always |-> TRUE, arrays |-> {"pc", "psij"}],
    [line |-> 1452, bound |-> "num_angles", always |-> TRUE, arrays |-> {"pc", "psik"}],
    [line |-> 1463, bound |-> "num_vec_angles", always |-> FALSE, arrays |-> {"pc"}],
    [line |-> 1470, bound |-> "num_vec_angles", always |-> TRUE, arrays |-> {"pc"}],
    [line |-> 1476, bound |-> "num_vec_angles", always |-> FALSE, arrays |-> {"hv_x"}],
    [line |-> 1478, bound |-> "num_vec_angles", always |-> FALSE, arrays |-> {"hv_y"}],
    [line |-> 1480, bound |-> "num_vec_angles", always |-> FALSE, arrays |-> {"hv_z"}],
    [line |-> 1482, bound |-> "num_vec_angles", always |-> FALSE, arrays |-> {"hv_t"}],
    [line |-> 1488, bound |-> "num_vec_angles", always |-> FALSE, arrays |-> {"fx_hv_x", "hv_x", "pc", "psii"}],
    [line |-> 1503, bound |-> "num_vec_angles", always |-> FALSE, arrays |-> {"fx_hv_y", "hv_y", "pc", "psij"}],
    [line |-> 1518, bound |-> "num_vec_angles", always |-> FALSE, arrays |-> {"fx_hv_z", "hv_z", "pc", "psik"}],
    [line |-> 1534, bound |-> "num_vec_angles", always |-> FALSE, arrays |-> {"fx_hv_t", "hv_t", "pc"}],
    [line |-> 1554, bound |-> "num_vec_angles", always |-> FALSE, arrays |-> {"hv_t", "hv_x", "hv_y", "hv_z", "pc", "psi", "psii", "psij", "psik"}],
    [line |-> 1600, bound |-> "num_vec_angles", always |-> FALSE, arrays |-> {"hv_x", "hv_y", "hv_z", "pc", "psi", "psii", "psij", "psik"}],
    [line |-> 1643, bound |-> "num_vec_angles", always |-> FALSE, arrays |-> {"fx_hv_x", "hv_x", "psii"}],
    [line |-> 1645, bound |-> "num_vec_angles", always |-> FALSE, arrays |-> {"fx_hv_y", "hv_y", "psij"}],
    [line |-> 1647, bound |-> "num_vec_angles", always |-> FALSE, arrays |-> {"fx_hv_z", "hv_z", "psik"}],
    [line |-> 1655, bound |-> "num_vec_angles", always |-> FALSE, arrays |-> {"fx_hv_t", "hv_t"}],
    [line |-> 1661, bound |-> "num_vec_angles", always |-> FALSE, arrays |-> {"pc", "psii"}],
    [line |-> 1664, bound |-> "num_vec_angles", always |-> FALSE, arrays |-> {"pc", "psij"}],
    [line |-> 1667, bound |-> "num_vec_angles", always |-> FALSE, arrays |-> {"pc", "psik"}],
    [line |-> 1676, bound |-> "num_vec_angles", always |-> FALSE, arrays |-> {"pc"}],
    [line |-> 1690, bound |-> "num_vec_angles", always |-> FALSE, arrays |-> {"psii"}],
    [line |-> 1701, bound |-> "num_vec_angles", always |-> FALSE, arrays |-> {"psii"}],
    [line |-> 1713, bound |-> "num_vec_angles", always |-> FALSE, arrays |-> {"psij"}],
    [line |-> 1724, bound |-> "num_vec_angles", always |-> FALSE, arrays |-> {"psij"}],
    [line |-> 1735, bound |-> "num_vec_angles", always |-> FALSE, arrays |-> {"psik"}],
    [line |-> 1746, bound |-> "num_vec_angles", always |-> FALSE, arrays |-> {"psik"}],
    [line |-> 1754, bound |-> "num_vec_angles", always |-> TRUE, arrays |-> {"psi"}],
    [line |-> 1766, bound |-> "num_vec_angles", always |-> FALSE, arrays |-> {"psi"}]>>
angle_loops(variant) ==
  CASE variant = "scalar" -> cpu_loops
    [] variant = "sse" -> sse_loops
    [] variant = "avx" -> avx_loops

\* elements a scratch array was allocated with: malloc(angle_buffer_size)
allocated(variant, na) == na \div vec_width(variant)

\* the value the loop condition compares ang with
loop_limit(lp, variant, na) ==
  IF lp.bound = "num_angles" THEN na ELSE na \div vec_width(variant)

IdxIdle ==
  /\ ix_in = <<>>
  /\ ix_loop = 0
  /\ ix_ang = 0
  /\ ix_last = <<>>
  /\ ix_at = "idle"

IdxInit ==
  /\ ix_in \in [variant : Variants, num_angles : VFoldAngles]
  /\ ix_loop = 1
  /\ ix_ang = 0
  /\ ix_last = <<>>
  /\ ix_at = "run"

IdxLoop == angle_loops(ix_in.variant)[ix_loop]
IdxInside ==
  /\ ix_at = "run"
  /\ ix_loop <= Len(angle_loops(ix_in.variant))
  /\ ix_ang < loop_limit(IdxLoop, ix_in.variant, ix_in.num_angles)

\* one iteration of the body: the arrays of the loop are indexed with ang.
\* An index past the allocation is undefined behaviour: the iteration goes
\* on (IdxIter) or the access faults (IdxFault).
IdxIter ==
  /\ IdxInside
  /\ ix_last' = [line |-> IdxLoop.line, arrays |-> IdxLoop.arrays, ang |-> ix_ang]
  /\ ix_ang' = ix_ang + 1
  /\ UNCHANGED <<ix_in, ix_loop, ix_at>>
  /\ UNCHANGED <<sweep_vars, sched_vars, mms_vars, fold_vars, fixup_vars, toc_vars, cos_vars, quad_vars, vec_vars, step_vars, cmp_vars, mr_vars, vfold_vars, bnd_vars, gpu_vars>>

IdxFault ==
  /\ IdxInside
  /\ ~(ix_ang < allocated(ix_in.variant, ix_in.num_angles))
  /\ ix_last' = [line |-> IdxLoop.line, arrays |-> IdxLoop.arrays, ang |-> ix_ang]
  /\ ix_at' = "fault"
  /\ UNCHANGED <<ix_in, ix_loop, ix_ang>>
  /\ UNCHANGED <<sweep_vars, sched_vars, mms_vars, fold_vars, fixup_vars, toc_vars, cos_vars, quad_vars, vec_vars, step_vars, cmp_vars, mr_vars, vfold_vars, bnd_vars, gpu_vars>>

\* the loop condition is false: on to the next loop, or a loop under a
\* branch the cell does not take is passed over
IdxLoopEnd ==
  /\ ix_at = "run"
  /\ ix_loop <= Len(angle_loops(ix_in.variant))
  /\ \/ ~(ix_ang < loop_limit(IdxLoop, ix_in.variant, ix_in.num_angles))
     \/ ix_ang = 0 /\ ~IdxLoop.always
  /\ ix_loop' = ix_loop + 1
  /\ ix_ang' = 0
  /\ UNCHANGED <<ix_in, ix_last, ix_at>>
  /\ UNCHANGED <<sweep_vars, sched_vars, mms_vars, fold_vars, fixup_vars, toc_vars, cos_vars, quad_vars, vec_vars, step_vars, cmp_vars, mr_vars, vfold_vars, bnd_vars, gpu_vars>>

IdxCellDone ==
  /\ ix_at = "run"
  /\ ix_loop > Len(angle_loops(ix_in.variant))
  /\ ix_at' = "done"
  /\ UNCHANGED <<ix_in, ix_loop, ix_ang, ix_last>>
  /\ UNCHANGED <<sweep_vars, sched_vars, mms_vars, fold_vars, fixup_vars, toc_vars, cos_vars, quad_vars, vec_vars, step_vars, cmp_vars, mr_vars, vfold_vars, bnd_vars, gpu_vars>>

IdxNext == IdxIter \/ IdxFault \/ IdxLoopEnd \/ IdxCellDone

\* C25: in all three variants every index used on a per-angle scratch array
\* is below the array's allocated length: num_angles doubles (scalar),
\* num_angles/2 vectors (SSE), num_angles/4 vectors (AVX).
C25_ScratchIndexWithinAllocation ==
  ix_last # <<>> => ix_last.ang < allocated(ix_in.variant, ix_in.num_angles)

(***************************************************************************)
(* The cell-boundary arrays ib, jb, kb of MMSInitFlux and MMSInitSource    *)
(* (mms.cc 103-114, 236-246).  Lengths are whole multiples of a unit, so   *)
(* dx, dy, dz and the boundaries are integers.                             *)
(***************************************************************************)
\* the increment of the loop that builds the array of the axis: dx in all three
boundary_increment(axis, d) == d[1]

BndTasks == {"MMSInitFlux", "MMSInitSource"}

BndIdle ==
  /\ bd_in = <<>>
  /\ bd_arr = <<>>
  /\ bd_at = [axis |-> 0, i |-> 0]

BndInit ==
  /\ bd_in \in [task : BndTasks,
                lo : {<<0, 0, 0>>, <<MaxBndLo, MaxBndLo, MaxBndLo>>},
                per_chunk : [Axes -> 1 .. MaxBndCells],
                d : [Axes -> 1 .. MaxBndStep]]
  /\ bd_arr = [axis \in Axes |-> <<>>]
  /\ bd_at = [axis |-> 1, i |-> 0]

\* ib[0] = dom.bounds.lo[0] * dx; jb[0] = dom.bounds.lo[1] * dy; kb[0] = ... * dz.
\* Element i of an array is at position i + 1 of its sequence.
BndFirst ==
  /\ bd_at.axis \in Axes
  /\ bd_at.i = 0
  /\ bd_arr' = [bd_arr EXCEPT ![bd_at.axis] = <<bd_in.lo[bd_at.axis] * bd_in.d[bd_at.axis]>>]
  /\ bd_at' = [bd_at EXCEPT !.i = 1]
  /\ UNCHANGED bd_in
  /\ UNCHANGED <<sweep_vars, sched_vars, mms_vars, fold_vars, fixup_vars, toc_vars, cos_vars, quad_vars, vec_vars, step_vars, cmp_vars, mr_vars, vfold_vars, idx_vars, gpu_vars>>

\* for (int j = 1; j <= Snap::ny_per_chunk; j++) jb[j] = jb[j-1] + dx;
BndAdvance ==
  /\ bd_at.axis \in Axes
  /\ 1 <= bd_at.i /\ bd_at.i <= bd_in.per_chunk[bd_at.axis]
  /\ bd_arr' = [bd_arr EXCEPT ![bd_at.axis] =
                  Append(@, @[bd_at.i] + boundary_increment(bd_at.axis, bd_in.d))]
  /\ bd_at' = [bd_at EXCEPT !.i = @ + 1]
  /\ UNCHANGED bd_in
  /\ UNCHANGED <<sweep_vars, sched_vars, mms_vars, fold_vars, fixup_vars, toc_vars, cos_vars, quad_vars, vec_vars, step_vars, cmp_vars, mr_vars, vfold_vars, idx_vars, gpu_vars>>

\* the loop condition fails: on to the next array
BndLoopEnd ==
  /\ bd_at.axis \in Axes
  /\ bd_at.i > bd_in.per_chunk[bd_at.axis]
  /\ bd_at' = [axis |-> bd_at.axis + 1, i |-> 0]
  /\ UNCHANGED <<bd_in, bd_arr>>
  /\ UNCHANGED <<sweep_vars, sched_vars, mms_vars, fold_vars, fixup_vars, toc_vars, cos_vars, quad_vars, vec_vars, step_vars, cmp_vars, mr_vars, vfold_vars, idx_vars, gpu_vars>>

BndNext == BndFirst \/ BndAdvance \/ BndLoopEnd

\* C29: in MMSInitFlux and MMSInitSource the boundary arrays advance by the
\* mesh step of their own axis: ib[i] = lo_x*dx + i*dx, jb[j] = lo_y*dy + j*dy
\* and kb[k] = lo_z*dz + k*dz for every element, also when dx, dy, dz differ.
C29_BoundariesAdvanceByOwnStep ==
  bd_at.axis # 0 =>
    \A axis \in Axes : \A n \in 1 .. Len(bd_arr[axis]) :
       bd_arr[axis][n] = bd_in.lo[axis] * bd_in.d[axis] + (n - 1) * bd_in.d[axis]

(***************************************************************************)
(* run_expand_cross_section and run_expand_scattering_cross_section        *)
(* (gpu_expxs.cpp): the switch on the number of group accessors            *)
(***************************************************************************)
\* the cases of the switch: <<case label, GROUPS of the kernel the case launches>>
expand_cases ==
  {<<1, 1>>, <<2, 2>>, <<3, 3>>, <<4, 4>>, <<5, 5>>, <<6, 6>>,
   <<7, 7>>, <<8, 8>>, <<9, 9>>, <<10, 10>>, <<11, 11>>, <<12, 12>>,
   <<13, 13>>, <<14, 14>>, <<15, 15>>, <<16, 16>>, <<24, 24>>, <<32, 32>>,
   <<40, 40>>, <<48, 48>>, <<56, 56>>, <<64, 64>>}
scattering_cases ==
  {<<1, 1>>, <<2, 2>>, <<3, 3>>, <<4, 4>>, <<5, 5>>, <<6, 6>>,
   <<7, 7>>, <<8, 8>>, <<9, 9>>, <<10, 10>>, <<11, 11>>, <<12, 12>>,
   <<13, 13>>, <<14, 14>>, <<15, 15>>, <<16, 16>>, <<24, 24>>, <<32, 32>>,
   <<40, 40>>, <<48, 48>>, <<56, 56>>, <<64, 64>>}

GpuFunctions == {"run_expand_cross_section", "run_expand_scattering_cross_section"}
switch_cases(fn) ==
  IF fn = "run_expand_cross_section" THEN expand_cases ELSE scattering_cases
kernel_of(fn) ==
  IF fn = "run_expand_cross_section" THEN "gpu_expand_cross_section"
  ELSE "gpu_expand_scattering_cross_section"

\* a switch with a case for every group count up to the largest
EveryCount(fn, n) == {<<n, n>>}
\* the cases whose label is n: none when the switch goes to default
matching_cases(fn, n) == {cs \in switch_cases(fn) : cs[1] = n}

GpuIdle ==
  /\ gx_in = <<>>
  /\ gx_launched = <<>>
  /\ gx_written = {}
  /\ gx_at = "idle"

\* fa_sig (fa_slgg) and fa_xs hold any number of accessors
GpuInit ==
  /\ gx_in \in [fn : GpuFunctions, n_in : 0 .. MaxGpuGroups, n_out : 0 .. MaxGpuGroups]
  /\ gx_in.n_out \in {gx_in.n_in, gx_in.n_in + 1, 1}
  /\ gx_launched = <<>>
  /\ gx_written = {}
  /\ gx_at = "call"

\* assert(fa_sig.size() == fa_xs.size());
GpuAssertSizes ==
  /\ gx_at = "call"
  /\ gx_at' = IF gx_in.n_in = gx_in.n_out THEN "switch" ELSE "abort"
  /\ UNCHANGED <<gx_in, gx_launched, gx_written>>
  /\ UNCHANGED <<sweep_vars, sched_vars, mms_vars, fold_vars, fixup_vars, toc_vars, cos_vars, quad_vars, vec_vars, step_vars, cmp_vars, mr_vars, vfold_vars, idx_vars, bnd_vars>>

\* case n: launch the kernel of the case and break. The kernel stores to
\* fa_xs[g] for g < GROUPS at every point of the grid.
GpuLaunch ==
  /\ gx_at = "switch"
  /\ \E cs \in matching_cases(gx_in.fn, gx_in.n_in) :
       /\ gx_launched' = Append(gx_launched, [kernel |-> kernel_of(gx_in.fn), GROUPS |-> cs[2]])
       /\ gx_written' = gx_written \cup (0 .. cs[2] - 1)
  /\ gx_at' = "returned"
  /\ UNCHANGED gx_in
  /\ UNCHANGED <<sweep_vars, sched_vars, mms_vars, fold_vars, fixup_vars, toc_vars, cos_vars, quad_vars, vec_vars, step_vars, cmp_vars, mr_vars, vfold_vars, idx_vars, bnd_vars>>

\* default: assert(false);
GpuDefault ==
  /\ gx_at = "switch"
  /\ matching_cases(gx_in.fn, gx_in.n_in) = {}
  /\ gx_at' = "abort"
  /\ UNCHANGED <<gx_in, gx_launched, gx_written>>
  /\ UNCHANGED <<sweep_vars, sched_vars, mms_vars, fold_vars, fixup_vars, toc_vars, cos_vars, quad_vars, vec_vars, step_vars, cmp_vars, mr_vars, vfold_vars, idx_vars, bnd_vars>>

GpuNext == GpuAssertSizes \/ GpuLaunch \/ GpuDefault

\* the group counts the claim names
DispatchedCounts == (1 .. 16) \cup {24, 32, 40, 48, 56, 64}

\* C30: both functions launch exactly one kernel, instantiated with GROUPS equal
\* to the number of group accessors, when that number is in {1..16, 24, 32, 40,
\* 48, 56, 64} and the input and output accessor counts agree; for every other
\* count no kernel is launched, the call ends in the failed assertion and no
\* output field is written.
C30_DispatchOnExactGroupCount ==
  /\ gx_at = "returned" =>
       /\ gx_in.n_in = gx_in.n_out /\ gx_in.n_in \in DispatchedCounts
       /\ gx_launched = <<[kernel |-> kernel_of(gx_in.fn), GROUPS |-> gx_in.n_in]>>
       /\ gx_written = 0 .. gx_in.n_in - 1
  /\ gx_at = "abort" =>
       /\ gx_in.n_in # gx_in.n_out \/ gx_in.n_in \notin DispatchedCounts
       /\ gx_launched = <<>>
       /\ gx_written = {}
  /\ gx_at = "switch" =>
       (gx_in.n_in \in DispatchedCounts <=> ENABLED GpuLaunch)

\* C30 witness: the scattering function has launched its kernel for 24 groups
C30_Witness ==
  /\ gx_at = "returned"
  /\ gx_in.fn = "run_expand_scattering_cross_section"
  /\ gx_in.n_in = 24
  /\ Len(gx_launched) = 1

(***************************************************************************)
(* Specifications                                                          *)
(***************************************************************************)
\* the Snap configuration of a sweep pass; no single task is followed
PassSnap ==
  /\ \E k \in {1, MaxPerChunk}, m \in {1, MaxMoments} :
       snap = [nx_per_chunk |-> k, ny_per_chunk |-> k, nz_per_chunk |-> k,
               num_moments |-> m]
  /\ args = [corner |-> 0, chunk |-> <<0, 0, 0>>]
  /\ sw_pc = "idle"
  /\ loop = <<0, 0, 0, 0>>
  /\ psii = Uninit
  /\ yflux_pencil = <<>>
  /\ zflux_plane = <<>>
  /\ ghost_out = <<<<>>, <<>>, <<>>>>
  /\ used = <<>>
  /\ applied = <<>>

InitSweep == SweepInit /\ SchedIdle /\ MMSIdle /\ FoldIdle /\ FixupIdle /\ TOCIdle /\ COSIdle /\ QuadIdle /\ VecIdle /\ StepIdle /\ CmpIdle /\ MonoidIdle /\ VFoldIdle /\ IdxIdle /\ BndIdle /\ GpuIdle
SpecSweep == InitSweep /\ [][SweepNext]_vars

InitSched == SchedInit /\ PassSnap /\ MMSIdle /\ FoldIdle /\ FixupIdle /\ TOCIdle /\ COSIdle /\ QuadIdle /\ VecIdle /\ StepIdle /\ CmpIdle /\ MonoidIdle /\ VFoldIdle /\ IdxIdle /\ BndIdle /\ GpuIdle
SpecSched == InitSched /\ [][SchedNext]_vars

InitMMS == MMSInit /\ SweepIdle /\ SchedIdle /\ FoldIdle /\ FixupIdle /\ TOCIdle /\ COSIdle /\ QuadIdle /\ VecIdle /\ StepIdle /\ CmpIdle /\ MonoidIdle /\ VFoldIdle /\ IdxIdle /\ BndIdle /\ GpuIdle
SpecMMS == InitMMS /\ [][MMSNext]_vars

InitFold == FoldInit /\ SweepIdle /\ SchedIdle /\ MMSIdle /\ FixupIdle /\ TOCIdle /\ COSIdle /\ QuadIdle /\ VecIdle /\ StepIdle /\ CmpIdle /\ MonoidIdle /\ VFoldIdle /\ IdxIdle /\ BndIdle /\ GpuIdle
SpecFold == InitFold /\ [][FoldNext]_vars

InitFixup == FixupInit /\ SweepIdle /\ SchedIdle /\ MMSIdle /\ FoldIdle /\ TOCIdle /\ COSIdle /\ QuadIdle /\ VecIdle /\ StepIdle /\ CmpIdle /\ MonoidIdle /\ VFoldIdle /\ IdxIdle /\ BndIdle /\ GpuIdle
SpecFixup == InitFixup /\ [][FixupNext]_vars

InitTOC == TOCInit /\ SweepIdle /\ SchedIdle /\ MMSIdle /\ FoldIdle /\ FixupIdle /\ COSIdle /\ QuadIdle /\ VecIdle /\ StepIdle /\ CmpIdle /\ MonoidIdle /\ VFoldIdle /\ IdxIdle /\ BndIdle /\ GpuIdle
SpecTOC == InitTOC /\ [][TOCNext]_vars

InitCOS == COSInit /\ SweepIdle /\ SchedIdle /\ MMSIdle /\ FoldIdle /\ FixupIdle /\ TOCIdle /\ QuadIdle /\ VecIdle /\ StepIdle /\ CmpIdle /\ MonoidIdle /\ VFoldIdle /\ IdxIdle /\ BndIdle /\ GpuIdle
SpecCOS == InitCOS /\ [][COSNext]_vars

InitQuad == QuadInit /\ SweepIdle /\ SchedIdle /\ MMSIdle /\ FoldIdle /\ FixupIdle /\ TOCIdle /\ COSIdle /\ VecIdle /\ StepIdle /\ CmpIdle /\ MonoidIdle /\ VFoldIdle /\ IdxIdle /\ BndIdle /\ GpuIdle
SpecQuad == InitQuad /\ [][QuadNext]_vars

InitVec == VecInit /\ SweepIdle /\ SchedIdle /\ MMSIdle /\ FoldIdle /\ FixupIdle /\ TOCIdle /\ COSIdle /\ QuadIdle /\ StepIdle /\ CmpIdle /\ MonoidIdle /\ VFoldIdle /\ IdxIdle /\ BndIdle /\ GpuIdle
SpecVec == InitVec /\ [][VecNext]_vars

InitStep == StepInit /\ SweepIdle /\ SchedIdle /\ MMSIdle /\ FoldIdle /\ FixupIdle /\ TOCIdle /\ COSIdle /\ QuadIdle /\ VecIdle /\ CmpIdle /\ MonoidIdle /\ VFoldIdle /\ IdxIdle /\ BndIdle /\ GpuIdle
SpecStep == InitStep /\ [][StepNext]_vars

InitCmp == CmpInit /\ SweepIdle /\ SchedIdle /\ MMSIdle /\ FoldIdle /\ FixupIdle /\ TOCIdle /\ COSIdle /\ QuadIdle /\ VecIdle /\ StepIdle /\ MonoidIdle /\ VFoldIdle /\ IdxIdle /\ BndIdle /\ GpuIdle
SpecCmp == InitCmp /\ [][CmpNext]_vars

InitMonoid == MonoidInit /\ SweepIdle /\ SchedIdle /\ MMSIdle /\ FoldIdle /\ FixupIdle /\ TOCIdle /\ COSIdle /\ QuadIdle /\ VecIdle /\ StepIdle /\ CmpIdle /\ VFoldIdle /\ IdxIdle /\ BndIdle /\ GpuIdle
SpecMonoid == InitMonoid /\ [][MonoidNext]_vars

InitVFold == VFoldInit /\ SweepIdle /\ SchedIdle /\ MMSIdle /\ FoldIdle /\ FixupIdle /\ TOCIdle /\ COSIdle /\ QuadIdle /\ VecIdle /\ StepIdle /\ CmpIdle /\ MonoidIdle /\ IdxIdle /\ BndIdle /\ GpuIdle
SpecVFold == InitVFold /\ [][VFoldNext]_vars

InitIdx == IdxInit /\ SweepIdle /\ SchedIdle /\ MMSIdle /\ FoldIdle /\ FixupIdle /\ TOCIdle /\ COSIdle /\ QuadIdle /\ VecIdle /\ StepIdle /\ CmpIdle /\ MonoidIdle /\ VFoldIdle /\ BndIdle /\ GpuIdle
SpecIdx == InitIdx /\ [][IdxNext]_vars

InitBnd == BndInit /\ SweepIdle /\ SchedIdle /\ MMSIdle /\ FoldIdle /\ FixupIdle /\ TOCIdle /\ COSIdle /\ QuadIdle /\ VecIdle /\ StepIdle /\ CmpIdle /\ MonoidIdle /\ VFoldIdle /\ IdxIdle /\ GpuIdle
SpecBnd == InitBnd /\ [][BndNext]_vars

InitGpu == GpuInit /\ SweepIdle /\ SchedIdle /\ MMSIdle /\ FoldIdle /\ FixupIdle /\ TOCIdle /\ COSIdle /\ QuadIdle /\ VecIdle /\ StepIdle /\ CmpIdle /\ MonoidIdle /\ VFoldIdle /\ IdxIdle /\ BndIdle
SpecGpu == InitGpu /\ [][GpuNext]_vars

====
